---- MODULE Spec2Model ----
(***************************************************************************)
(* wallet-agent: the tool-calling loop of ReceiptChatAssistant             *)
(* (src/ai_pipeline/pipeline.py, process_query) as a state machine.        *)
(*                                                                         *)
(* One behaviour is one invocation of process_query(query, user_id).  The  *)
(* two language models are the environment: every generate_content call    *)
(* draws its response from Responses.  The accessors of the Vertex AI SDK  *)
(* that process_query relies on are modelled by what they do:              *)
(*   - part.function_call is a protobuf message, falsy when unset;         *)
(*   - response.text raises ValueError unless the first candidate's        *)
(*     content has exactly one part and that part is a text part;          *)
(*   - calling a tool function with keyword arguments raises TypeError     *)
(*     when the keywords do not fit the function's parameter list.         *)
(* The primary model is a scripted one: it repeats its response from turn  *)
(* to turn and may switch to another response once.                        *)
(*                                                                         *)
(* A second specification, ReceiptSpec, covers the receipt store and what  *)
(* reads it: the fetch adapter _fetch_receipts over FirebaseClient, the    *)
(* analytics functions of src/ai_pipeline/analysis_tools.py and the        *)
(* receipt parsers of pipeline.py.  One behaviour is one call on a store   *)
(* drawn from Stores.  Amounts are whole numbers; a float result is kept   *)
(* exact as a fraction, a standard deviation as the square root of one,    *)
(* and comparisons with a standard deviation are decided on the squares.   *)
(* Dates are <<year, month, day>> and are turned into day numbers with     *)
(* the month lengths of the calendar.                                      *)
(*                                                                         *)
(* UploadSpec covers the receipts the service stores itself: documents     *)
(* are written by AIPipeline.process_receipt and then read by the          *)
(* analytics that parse the date of single receipts.  UpdateSpec covers    *)
(* two requests that write one document through                            *)
(* FirebaseClient.add_or_update_document, one store operation per step.    *)
(***************************************************************************)
EXTENDS Integers, Sequences, FiniteSets, TLC

VARIABLES
    pc,                   \* position inside process_query
    user_id,              \* the caller's user_id argument
    history,              \* conversation history (list of Content)
    execution_results,    \* the execution log
    turn,                 \* iterations of `for _ in range(5)` started so far
    response,             \* the local `response`: last primary model response
    part_idx,             \* index of the part the inner for loop is at
    tool_responses,       \* the local `tool_responses` of the current turn
    final_response_text,  \* the local `final_response_text`
    shopping_list_response, \* the local `shopping_list_response`
    result,               \* the WalletPass returned, once pc = "returned"
    invoked,              \* every tool function call made: pass, tool, kwargs
    model_calls,          \* number of self.model.generate_content calls
    tool_phases,          \* number of tool turns appended to history
    secondary_calls,      \* number of shopping_list_model.generate_content calls
    changed,              \* the primary model has switched to another response
    store,                \* the receipt documents of the store, in stream order
    request,              \* the analytics or parser call made, with its arguments
    returned              \* what that call returned or raised

\* the variables of process_query
chat_vars == <<pc, user_id, history, execution_results, turn, response, part_idx,
               tool_responses, final_response_text, shopping_list_response, result,
               invoked, model_calls, tool_phases, secondary_calls, changed>>

\* the variables of the receipt store and of a call on it
receipt_vars == <<store, request, returned>>

vars == <<chat_vars, receipt_vars>>

-----------------------------------------------------------------------------
(* Bounds of the environment *)

\* longest part list of a model response
MaxParts == 2

\* largest number of receipt documents in the store
MaxReceipts == 3

\* largest limit argument of get_top_vendors
MaxLimit == 3

\* largest min_frequency argument of get_frequently_purchased_items
MaxFrequency == 3

\* largest months argument of get_monthly_spending_trend
MaxMonths == 3

\* largest number of documents in the seed store of the uploads
MaxSeeds == 2

\* largest number of receipts uploaded in one behaviour
MaxUploads == 1

-----------------------------------------------------------------------------
(* Program constants *)

\* `for _ in range(5)`
MaxTurns == 5

Users == {"alice", "bob"}

\* the user_id a model response may carry inside its function-call arguments
ModelUserId == "bob"

query == "what are my top vendors?"

\* texts are sequences of string fragments
ModelText == <<"Here is your answer.">>

NoResponseText == <<"No response from model.">>

\* analysis_tools.all_tool_calls
all_tool_calls ==
    {"_fetch_receipts_all_categories", "find_purchases", "get_largest_purchase",
     "get_spending_for_category", "get_average_daily_spending",
     "get_spending_by_day_of_week", "get_monthly_spending_trend",
     "get_top_vendors", "get_category_breakdown",
     "get_frequently_purchased_items", "check_inventory_status",
     "detect_recurring_subscriptions", "find_savings_opportunities",
     "compare_spending_to_budget", "calculate_total_taxes",
     "get_items_from_receipts", "suggest_shopping_list",
     "detect_unusual_spending"}

\* a mutant of toolbox: the wallet-pass tool registered in the primary toolbox
toolbox_with_pass == all_tool_calls \cup {"search", "create_shopping_list_pass"}

\* self.toolbox: all_tool_calls plus the 'search' entry
toolbox == all_tool_calls \cup {"search"}

\* self.shopping_list_toolbox
shopping_list_toolbox == {"create_shopping_list_pass"}

\* self.function_declarations: the tools offered to the primary model
function_declarations == all_tool_calls \cup {"search"}

\* self.shopping_list_tool: the tools offered to the shopping-list model
shopping_list_tool == {"create_shopping_list_pass"}

-----------------------------------------------------------------------------
(* Values exchanged with the models *)

\* an empty keyword-argument mapping
EmptyArgs == [k \in {} |-> ""]

\* an unset function_call field (an empty protobuf message)
NoCall == [name |-> "", args |-> EmptyArgs]

\* truthiness of part.function_call: an unset message is falsy
IsCall(function_call) ==
    function_call.name # "" \/ DOMAIN function_call.args # {}

\* Part.from_text
TextPart(t) == [kind |-> "text", text |-> t, function_call |-> NoCall]

\* a function-call part of a model response
CallPart(n, a) ==
    [kind |-> "function_call", text |-> <<>>, function_call |-> [name |-> n, args |-> a]]

\* Part.from_function_response
ResponsePart(n, r) ==
    [kind |-> "function_response", text |-> <<>>, function_call |-> NoCall,
     name |-> n, response |-> r]

\* json.dumps(result, default=str)
JsonDumps(v) == [json |-> v]

\* model-supplied arguments of get_top_vendors, a user_id among them
TopVendorsArgs ==
    [limit |-> "1", start_date |-> "2025-01-01", end_date |-> "2025-01-31",
     user_id |-> ModelUserId]

\* the parts a response of the primary model is built from: a text, a call
\* of a registered analytics function, a call of the registered search
\* function, and a call of a function that self.toolbox does not hold
ModelParts ==
    { TextPart(ModelText),
      CallPart("get_top_vendors", TopVendorsArgs),
      CallPart("search", [query |-> "milk price"]),
      CallPart("create_shopping_list_pass", [items |-> <<"milk">>]) }

\* the parts a response of the shopping-list model is built from
ShoppingListModelParts ==
    { TextPart(ModelText),
      CallPart("create_shopping_list_pass", [items |-> <<"milk">>]),
      CallPart("get_top_vendors", TopVendorsArgs) }

\* the part lists of at most MaxParts parts
PartLists(parts) == UNION {[1..n -> parts] : n \in 0..MaxParts}

\* a response without candidates
NoCandidates == [candidates |-> <<>>]

\* a response with one candidate whose content holds the given parts
OneCandidate(ps) ==
    [candidates |-> << [content |-> [role |-> "model", parts |-> ps]] >>]

\* what self.model.generate_content may return
Responses == {NoCandidates} \cup {OneCandidate(ps) : ps \in PartLists(ModelParts)}

\* what self.shopping_list_model.generate_content may return
ShoppingListResponses ==
    {NoCandidates} \cup {OneCandidate(ps) : ps \in PartLists(ShoppingListModelParts)}

\* the value of `response` before the first model call
Unbound == [unbound |-> TRUE]

\* response.candidates[0].content.parts
PartsOf(r) == r.candidates[1].content.parts

\* the negation of the break condition of the primary loop
HasLeadingFunctionCall(r) ==
    /\ r.candidates # <<>>
    /\ PartsOf(r) # <<>>
    /\ IsCall(PartsOf(r)[1].function_call)

\* response.text of the SDK: the text of the only part, else ValueError
ResponseText(r) ==
    IF Len(r.candidates) = 1 /\ Len(PartsOf(r)) = 1 /\ PartsOf(r)[1].kind = "text"
    THEN [ok |-> TRUE, value |-> PartsOf(r)[1].text]
    ELSE [ok |-> FALSE, value |-> <<"ValueError">>]

-----------------------------------------------------------------------------
(* The tool functions *)

\* the parameter lists of the registered functions
Signature(n) ==
    CASE n \in {"_fetch_receipts_all_categories", "find_purchases",
                "get_average_daily_spending", "get_spending_by_day_of_week",
                "get_category_breakdown", "calculate_total_taxes"} ->
            [required |-> {"start_date", "end_date"}, optional |-> {"user_id"}]
      [] n = "get_largest_purchase" ->
            [required |-> {"purchases"}, optional |-> {}]
      [] n = "get_spending_for_category" ->
            [required |-> {"category", "start_date", "end_date"}, optional |-> {"user_id"}]
      [] n = "get_monthly_spending_trend" ->
            [required |-> {"months"}, optional |-> {"user_id"}]
      [] n = "get_top_vendors" ->
            [required |-> {"limit", "start_date", "end_date"}, optional |-> {"user_id"}]
      [] n = "get_frequently_purchased_items" ->
            [required |-> {"min_frequency", "start_date", "end_date"}, optional |-> {"user_id"}]
      [] n = "check_inventory_status" ->
            [required |-> {"item_names"}, optional |-> {"user_id"}]
      [] n = "detect_recurring_subscriptions" ->
            [required |-> {}, optional |-> {"user_id"}]
      [] n = "find_savings_opportunities" ->
            [required |-> {"category", "percentile_threshold"}, optional |-> {"user_id"}]
      [] n = "compare_spending_to_budget" ->
            [required |-> {"budget_amount", "start_date", "end_date"}, optional |-> {"user_id"}]
      [] n = "get_items_from_receipts" ->
            [required |-> {"category", "days_back"}, optional |-> {"user_id"}]
      [] n = "suggest_shopping_list" ->
            [required |-> {"missing_items"}, optional |-> {"user_id"}]
      [] n = "detect_unusual_spending" ->
            [required |-> {"sensitivity", "days_back"}, optional |-> {"user_id"}]
      [] n = "search" ->
            [required |-> {"query"}, optional |-> {}]
      [] n = "create_shopping_list_pass" ->
            [required |-> {"items"}, optional |-> {"store", "notes"}]

\* the call of a tool function with keyword arguments: TypeError when the keywords do not fit the signature,
\* else the function's payload (which names the user whose data it read)
CallTool(n, kwargs) ==
    LET sig == Signature(n) IN
    IF ~(DOMAIN kwargs \subseteq sig.required \cup sig.optional)
    THEN [ok |-> FALSE, value |-> <<"TypeError: unexpected keyword argument">>]
    ELSE IF ~(sig.required \subseteq DOMAIN kwargs)
    THEN [ok |-> FALSE, value |-> <<"TypeError: missing required argument">>]
    ELSE [ok |-> TRUE,
          value |-> [tool |-> n,
                     data_of |-> IF "user_id" \in DOMAIN kwargs
                                 THEN kwargs["user_id"] ELSE "None"]]

\* a mutant of InjectUserId: a model-supplied user_id is kept (setdefault)
InjectUserIdKeep(args, u) ==
    [k \in DOMAIN args \cup {"user_id"} |->
        IF k \in DOMAIN args THEN args[k] ELSE u]

\* args = dict(function_call.args); args["user_id"] = user_id
InjectUserId(args, u) ==
    [k \in DOMAIN args \cup {"user_id"} |->
        IF k = "user_id" THEN u ELSE args[k]]

\* log_args: the arguments without user_id
LogArgs(args) == [k \in DOMAIN args \ {"user_id"} |-> args[k]]

\* create_shopping_list_pass called with args; wallet_ok: the wallet service accepted
\* the pass object (generate_pass_link raises RuntimeError otherwise)
CreateShoppingListPass(args, wallet_ok) ==
    LET bound == CallTool("create_shopping_list_pass", args) IN
    IF ~bound.ok THEN bound
    ELSE IF ~wallet_ok
    THEN [ok |-> FALSE, value |-> <<"RuntimeError: Error creating pass object">>]
    ELSE [ok |-> TRUE,
          value |-> [items |-> args["items"],
                     store |-> IF "store" \in DOMAIN args THEN args["store"] ELSE "None",
                     notes |-> IF "notes" \in DOMAIN args THEN args["notes"] ELSE "None",
                     wallet_link |-> "https://pay.google.com/gp/v/save/token"]]

\* the first turn of the history: f"User ID: {user_id}\n\nQuery: {query}"
UserTurn(u, q) ==
    [role |-> "user", parts |-> << TextPart(<<"User ID: ", u, "\n\nQuery: ", q>>) >>]

\* WalletPass(pass_type=PassType.OTHER, ...)
PlainAnswer(q, text, log) ==
    [pass_type |-> "other", title |-> "Your Agent's Answer", subtitle |-> q,
     details |-> [response |-> text, execution_results |-> log]]

\* WalletPass(pass_type=PassType.SHOPPING_LIST, ...), details['response'] set
ShoppingListAnswer(data, text) ==
    [pass_type |-> "shopping_list", title |-> "Your Shopping List",
     subtitle |-> "Created from your request",
     details |-> [items |-> data.items, store |-> data.store, notes |-> data.notes,
                  wallet_link |-> data.wallet_link, response |-> text]]

\* no WalletPass yet
NoResult == [pass_type |-> "none"]

-----------------------------------------------------------------------------
(* Dates, numbers and strings as the analytics functions use them *)

\* datetime.now(), as a date <<year, month, day>>
Today == <<2024, 7, 30>>

IsLeap(y) == (y % 4 = 0 /\ y % 100 # 0) \/ y % 400 = 0

DaysInMonth(y, m) ==
    CASE m \in {4, 6, 9, 11} -> 30
      [] m = 2 -> IF IsLeap(y) THEN 29 ELSE 28
      [] OTHER -> 31

RECURSIVE DaysBeforeMonth(_, _)
DaysBeforeMonth(y, m) ==
    IF m = 1 THEN 0 ELSE DaysBeforeMonth(y, m - 1) + DaysInMonth(y, m - 1)

\* the day number of a date parsed by datetime.strptime(s, '%Y-%m-%d')
ToOrdinal(d) ==
    LET y == d[1] - 1 IN
    y * 365 + (y \div 4) - (y \div 100) + (y \div 400)
        + DaysBeforeMonth(d[1], d[2]) + d[3]

\* (b - a).days
DaysBetween(a, b) == ToOrdinal(b) - ToOrdinal(a)

\* the years the dates of the model lie in
Years == 2023..2025

\* date.fromordinal(n)
FromOrdinal(n) ==
    LET y == CHOOSE yy \in Years :
                 ToOrdinal(<<yy, 1, 1>>) <= n /\ n < ToOrdinal(<<yy + 1, 1, 1>>)
        m == CHOOSE mm \in 1..12 :
                 /\ ToOrdinal(<<y, mm, 1>>) <= n
                 /\ n < ToOrdinal(<<y, mm, 1>>) + DaysInMonth(y, mm)
    IN <<y, m, n - ToOrdinal(<<y, m, 1>>) + 1>>

\* (d + timedelta(days=n)).strftime('%Y-%m-%d')
PlusDays(d, n) == FromOrdinal(ToOrdinal(d) + n)

\* sum(xs)
RECURSIVE Sum(_)
Sum(xs) == IF xs = <<>> THEN 0 ELSE Head(xs) + Sum(Tail(xs))

\* sum(x * x for x in xs)
RECURSIVE SumSq(_)
SumSq(xs) == IF xs = <<>> THEN 0 ELSE Head(xs) * Head(xs) + SumSq(Tail(xs))

\* a float result, kept exact as the fraction num / den (den > 0)
Float(n, d) == [num |-> n, den |-> d]

\* statistics.mean(xs)
Mean(xs) == Float(Sum(xs), Len(xs))

\* int(x) of a float: truncation toward zero
Truncate(x) ==
    IF x.num >= 0 THEN x.num \div x.den ELSE 0 - ((0 - x.num) \div x.den)

\* Len(xs) * (Len(xs) - 1) times the sample variance of xs: statistics.stdev(xs)
\* is the square root of ScaledVariance(xs) / (Len(xs) * (Len(xs) - 1))
ScaledVariance(xs) == Len(xs) * SumSq(xs) - Sum(xs) * Sum(xs)

\* (statistics.stdev(xs) if len(xs) > 1 else 0) < statistics.mean(xs) * (1 / k),
\* decided on the squares
SpreadBelowMeanOver(xs, k) ==
    LET n == Len(xs) IN
    /\ Sum(xs) > 0
    /\ n > 1 => k * k * n * ScaledVariance(xs) < (n - 1) * Sum(xs) * Sum(xs)

\* a > statistics.mean(xs) + sensitivity * statistics.stdev(xs) for a whole
\* sensitivity and Len(xs) > 1, decided on the squares
AboveThreshold(a, xs, sensitivity) ==
    LET n == Len(xs)
        lhs == n * a - Sum(xs)
        lsq == lhs * lhs * (n - 1)
        rsq == sensitivity * sensitivity * n * ScaledVariance(xs)
    IN IF sensitivity >= 0 \/ ScaledVariance(xs) = 0
       THEN lhs > 0 /\ lsq > rsq
       ELSE lhs >= 0 \/ lsq < rsq

\* str.lower on the characters of the names below
LowerChar(c) ==
    CASE c = "M" -> "m" [] c = "I" -> "i" [] c = "L" -> "l" [] c = "K" -> "k"
      [] c = "E" -> "e" [] c = "G" -> "g" [] OTHER -> c

\* str.lower; a string is the sequence of its characters
Lower(s) == [i \in 1..Len(s) |-> LowerChar(s[i])]

RECURSIVE LStrip(_)
LStrip(s) == IF s # <<>> /\ Head(s) = " " THEN LStrip(Tail(s)) ELSE s

RECURSIVE RStrip(_)
RStrip(s) ==
    IF s # <<>> /\ s[Len(s)] = " " THEN RStrip(SubSeq(s, 1, Len(s) - 1)) ELSE s

\* str.strip
Strip(s) == RStrip(LStrip(s))

\* the keys of a dict filled in the order of xs: first occurrences, in order
RECURSIVE Distinct(_)
Distinct(xs) ==
    IF xs = <<>> THEN <<>>
    ELSE LET init == Distinct(SubSeq(xs, 1, Len(xs) - 1))
             last == xs[Len(xs)]
         IN IF \E i \in 1..Len(init) : init[i] = last THEN init
            ELSE Append(init, last)

\* sorted(rows, key=lambda x: x[field], reverse=True): stable
RECURSIVE SortedDesc(_, _)
SortedDesc(rows, field) ==
    IF rows = <<>> THEN <<>>
    ELSE LET h == Head(rows)
             rest == SortedDesc(Tail(rows), field)
         IN SelectSeq(rest, LAMBDA r : r[field] > h[field]) \o <<h>>
                \o SelectSeq(rest, LAMBDA r : r[field] <= h[field])

\* rows.sort(key=lambda x: x[field]): stable
RECURSIVE SortedAsc(_, _)
SortedAsc(rows, field) ==
    IF rows = <<>> THEN <<>>
    ELSE LET h == Head(rows)
             rest == SortedAsc(Tail(rows), field)
         IN SelectSeq(rest, LAMBDA r : r[field] < h[field]) \o <<h>>
                \o SelectSeq(rest, LAMBDA r : r[field] >= h[field])

\* xs[:limit]
SliceTo(xs, limit) ==
    LET n == Len(xs)
        stop == IF limit < 0 THEN (IF n + limit > 0 THEN n + limit ELSE 0)
                ELSE (IF limit < n THEN limit ELSE n)
    IN SubSeq(xs, 1, stop)

\* the concatenation of a sequence of sequences
RECURSIVE Flatten(_)
Flatten(ss) == IF ss = <<>> THEN <<>> ELSE Head(ss) \o Flatten(Tail(ss))

-----------------------------------------------------------------------------
(* Receipt documents and the Firestore collections users/{user_id}/receipts *)

Milk == <<"M", "i", "l", "k">>

MilkSpaced == <<" ", "m", "i", "l", "k", " ">>

MilkUpper == <<"M", "I", "L", "K">>

Egg == <<"E", "g", "g">>

Apr1 == <<2024, 4, 1>>

Apr2 == <<2024, 4, 2>>

May1 == <<2024, 5, 1>>

May31 == <<2024, 5, 31>>

\* an entry of a receipt's items list
Item(n, p) == [name |-> n, price |-> p]

\* a receipt document
ReceiptDoc(v, c, a, d, its) ==
    [vendor_name |-> v, category |-> c, amount |-> a, date |-> d, items |-> its]

\* the receipt documents the collections are filled from
ReceiptPool ==
    { ReceiptDoc("X", "grocery", 100, May1, << Item(Milk, 40) >>),
      ReceiptDoc("X", "grocery", 102, May31, << Item(MilkSpaced, 42), Item(Egg, 6) >>),
      ReceiptDoc("X", "fuel", 100, Apr1, <<>>),
      ReceiptDoc("X", "fuel", 100, Apr2, <<>>),
      ReceiptDoc("X", "grocery", 50, May1, << Item(Egg, 6) >>),
      ReceiptDoc("Y", "fuel", 30, May31, << Item(MilkUpper, 30) >>) }

\* the documents of the receipt collections, each with the user it belongs to
Documents ==
    [owner : {"alice"}, data : ReceiptPool]
        \cup [owner : {"bob"},
              data : {ReceiptDoc("Y", "fuel", 30, May31, << Item(MilkUpper, 30) >>)}]

\* the stores: the documents of all receipt collections in stream order
Stores == UNION {[1..n -> Documents] : n \in 0..MaxReceipts}

\* receipt_data = doc.to_dict(); receipt_data['receipt_id'] = doc.id
WithReceiptId(data, id) ==
    [k \in DOMAIN data \cup {"receipt_id"} |->
        IF k = "receipt_id" THEN id ELSE data[k]]

\* the documents of users/{u}/receipts from position i on, as the stream yields them
RECURSIVE StreamFrom(_, _, _)
StreamFrom(docs, u, i) ==
    IF i > Len(docs) THEN <<>>
    ELSE (IF docs[i].owner = u THEN << WithReceiptId(docs[i].data, i) >> ELSE <<>>)
            \o StreamFrom(docs, u, i + 1)

\* FirebaseClient.get_receipts_by_timerange: the two range conditions are
\* commented out, the whole collection of the user is streamed
get_receipts_by_timerange(docs, u, start_timestamp, end_timestamp) ==
    StreamFrom(docs, u, 1)

\* dict.get(key) is truthy: the key is present with a non-empty value
Truthy(params, key) == key \in DOMAIN params /\ params[key] # ""

\* op_map of _fetch_receipts
op_map(op, x, val) ==
    CASE op = "gt" -> x > val
      [] op = "lt" -> x < val
      [] op = "eq" -> x = val

\* a mutant of ApplyFilters: the vendor filter is not applied
ApplyFiltersButVendor(receipts, params) ==
    LET by_category ==
            IF Truthy(params, "category")
            THEN SelectSeq(receipts, LAMBDA r : r.category = params.category)
            ELSE receipts
        cond == params.amount_condition
    IN IF "amount_condition" \in DOMAIN params /\ cond.operator \in {"gt", "lt", "eq"}
       THEN SelectSeq(by_category, LAMBDA r : op_map(cond.operator, r.amount, cond.value))
       ELSE by_category

\* the filters of _fetch_receipts, in their order: category, vendor_name,
\* amount_condition (skipped when its operator is not in op_map)
ApplyFilters(receipts, params) ==
    LET by_category ==
            IF Truthy(params, "category")
            THEN SelectSeq(receipts, LAMBDA r : r.category = params.category)
            ELSE receipts
        by_vendor ==
            IF Truthy(params, "vendor_name")
            THEN SelectSeq(by_category, LAMBDA r : r.vendor_name = params.vendor_name)
            ELSE by_category
        cond == params.amount_condition
    IN IF "amount_condition" \in DOMAIN params /\ cond.operator \in {"gt", "lt", "eq"}
       THEN SelectSeq(by_vendor, LAMBDA r : op_map(cond.operator, r.amount, cond.value))
       ELSE by_vendor

\* a mutant of _fetch_receipts: no guard on db_client and no try/except
_fetch_receipts_unguarded(db, docs, u, params) ==
    IF db # "up" THEN [raised |-> TRUE, value |-> <<>>]
    ELSE [raised |-> FALSE,
          value |-> ApplyFilters(get_receipts_by_timerange(
                        docs, u, params.start_date, params.end_date), params)]

\* _fetch_receipts(user_id, params): the list it returns and whether it raised.
\* db is the state of the module's db_client: "none" (falsy), "failing" (its
\* fetch raises) or "up"; docs is the store
_fetch_receipts(db, docs, u, params) ==
    IF db = "none" THEN [raised |-> FALSE, value |-> <<>>]
    ELSE IF db = "failing" THEN [raised |-> FALSE, value |-> <<>>]
    ELSE [raised |-> FALSE,
          value |-> ApplyFilters(get_receipts_by_timerange(
                        docs, u, params.start_date, params.end_date), params)]

\* {"start_date": start_date, "end_date": end_date}
RangeParams(start_date, end_date) ==
    [start_date |-> start_date, end_date |-> end_date]

\* the amounts of a receipt list: [r.get('amount', 0) for r in receipts]
Amounts(receipts) == [i \in 1..Len(receipts) |-> receipts[i].amount]

-----------------------------------------------------------------------------
(* The analytics functions.  Each takes the state of db_client and the      *)
(* store besides the arguments of the Python function.                      *)

\* the vendor rows get_top_vendors sorts: a vendor_spending entry per vendor
VendorSpending(receipts) ==
    LET vendors == Distinct([i \in 1..Len(receipts) |-> receipts[i].vendor_name])
        Of(v) == SelectSeq(receipts, LAMBDA r : r.vendor_name = v)
    IN [i \in 1..Len(vendors) |->
            [vendor |-> vendors[i],
             total |-> Sum(Amounts(Of(vendors[i]))),
             count |-> Len(Of(vendors[i]))]]

\* a mutant of get_top_vendors: the sorted list is not truncated
get_all_vendors(db, docs, limit, start_date, end_date, u) ==
    LET receipts == _fetch_receipts(db, docs, u, RangeParams(start_date, end_date)).value
        sorted_vendors == SortedDesc(VendorSpending(receipts), "total")
    IN [i \in 1..Len(sorted_vendors) |->
            [vendor |-> sorted_vendors[i].vendor,
             total_spent |-> sorted_vendors[i].total,
             transaction_count |-> sorted_vendors[i].count,
             average_per_transaction |->
                IF sorted_vendors[i].count > 0
                THEN Float(sorted_vendors[i].total, sorted_vendors[i].count)
                ELSE Float(0, 1)]]

get_top_vendors(db, docs, limit, start_date, end_date, u) ==
    LET receipts == _fetch_receipts(db, docs, u, RangeParams(start_date, end_date)).value
        sorted_vendors == SliceTo(SortedDesc(VendorSpending(receipts), "total"), limit)
    IN [i \in 1..Len(sorted_vendors) |->
            [vendor |-> sorted_vendors[i].vendor,
             total_spent |-> sorted_vendors[i].total,
             transaction_count |-> sorted_vendors[i].count,
             average_per_transaction |->
                IF sorted_vendors[i].count > 0
                THEN Float(sorted_vendors[i].total, sorted_vendors[i].count)
                ELSE Float(0, 1)]]

\* a mutant of get_average_daily_spending: the end day is not counted
get_average_daily_spending_exclusive(db, docs, start_date, end_date, u) ==
    LET receipts == _fetch_receipts(db, docs, u, RangeParams(start_date, end_date)).value
        total_amount == Sum(Amounts(receipts))
        days == DaysBetween(start_date, end_date)
    IN IF receipts = <<>> THEN Float(0, 1)
       ELSE IF days > 0 THEN Float(total_amount, days) ELSE Float(0, 1)

get_average_daily_spending(db, docs, start_date, end_date, u) ==
    LET receipts == _fetch_receipts(db, docs, u, RangeParams(start_date, end_date)).value
        total_amount == Sum(Amounts(receipts))
        days == DaysBetween(start_date, end_date) + 1
    IN IF receipts = <<>> THEN Float(0, 1)
       ELSE IF days > 0 THEN Float(total_amount, days) ELSE Float(0, 1)

\* the items of the receipts under their normalized names, those with an
\* empty name left out: item.get('name', '').lower().strip()
NamedItems(receipts) ==
    LET all == Flatten([i \in 1..Len(receipts) |-> receipts[i].items])
        normalized == [i \in 1..Len(all) |->
                          Item(Strip(Lower(all[i].name)), all[i].price)]
    IN SelectSeq(normalized, LAMBDA it : it.name # <<>>)

\* the rows of item_counter and item_details, in insertion order
ItemRows(receipts) ==
    LET items == NamedItems(receipts)
        names == Distinct([i \in 1..Len(items) |-> items[i].name])
        Of(n) == SelectSeq(items, LAMBDA it : it.name = n)
        Prices(n) == [i \in 1..Len(Of(n)) |-> Of(n)[i].price]
    IN [i \in 1..Len(names) |->
            [item |-> names[i],
             purchase_count |-> Len(Of(names[i])),
             total_spent |-> Sum(Prices(names[i])),
             average_price |-> Mean(Prices(names[i])),
             price_variance |->
                IF Len(Of(names[i])) > 1
                THEN [sqrt_of |-> Float(ScaledVariance(Prices(names[i])),
                                        Len(Of(names[i])) * (Len(Of(names[i])) - 1))]
                ELSE [sqrt_of |-> Float(0, 1)]]]

\* a mutant of get_frequently_purchased_items: count > min_frequency
get_items_above_frequency(db, docs, min_frequency, start_date, end_date, u) ==
    LET receipts == _fetch_receipts(db, docs, u, RangeParams(start_date, end_date)).value
        frequent_items ==
            SelectSeq(ItemRows(receipts), LAMBDA row : row.purchase_count > min_frequency)
    IN SortedDesc(frequent_items, "purchase_count")

get_frequently_purchased_items(db, docs, min_frequency, start_date, end_date, u) ==
    LET receipts == _fetch_receipts(db, docs, u, RangeParams(start_date, end_date)).value
        frequent_items ==
            SelectSeq(ItemRows(receipts), LAMBDA row : row.purchase_count >= min_frequency)
    IN SortedDesc(frequent_items, "purchase_count")

\* the transactions of one vendor, sorted by date
TransactionsOf(receipts, vendor) ==
    LET of == SelectSeq(receipts, LAMBDA r : r.vendor_name = vendor) IN
    SortedAsc([i \in 1..Len(of) |->
                  [date |-> of[i].date, day |-> ToOrdinal(of[i].date),
                   amount |-> of[i].amount]], "day")

\* the day gaps between consecutive transactions
Intervals(transactions) ==
    [i \in 1..(Len(transactions) - 1) |-> transactions[i + 1].day - transactions[i].day]

\* is_likely_subscription, for a vendor with at least 2 transactions
IsLikelySubscription(transactions) ==
    LET amounts == [i \in 1..Len(transactions) |-> transactions[i].amount]
        intervals == Intervals(transactions)
    IN /\ SpreadBelowMeanOver(amounts, 10)
       /\ SpreadBelowMeanOver(intervals, 5)
       /\ 25 * Len(intervals) <= Sum(intervals)
       /\ Sum(intervals) <= 35 * Len(intervals)

\* the subscriptions entry of a vendor
Subscription(vendor, transactions) ==
    LET amounts == [i \in 1..Len(transactions) |-> transactions[i].amount]
        intervals == Intervals(transactions)
        last == transactions[Len(transactions)].date
    IN [vendor |-> vendor,
        estimated_monthly_cost |-> Mean(amounts),
        transaction_count |-> Len(transactions),
        average_interval_days |-> Mean(intervals),
        last_charge |-> last,
        next_expected_charge |-> PlusDays(last, Truncate(Mean(intervals)))]

detect_recurring_subscriptions(db, docs, now, u) ==
    LET receipts == _fetch_receipts(db, docs, u,
                        RangeParams(PlusDays(now, -90), now)).value
        named == SelectSeq(receipts, LAMBDA r : r.vendor_name # "")
        vendors == Distinct([i \in 1..Len(named) |-> named[i].vendor_name])
        likely == SelectSeq(vendors, LAMBDA v :
                      /\ Len(TransactionsOf(named, v)) >= 2
                      /\ IsLikelySubscription(TransactionsOf(named, v)))
    IN [i \in 1..Len(likely) |-> Subscription(likely[i], TransactionsOf(named, likely[i]))]

\* the unusual_spending entry of a receipt.  deviation, (amount - mean) / stdev,
\* is kept as its numerator and the fraction whose square root is stdev
UnusualEntry(receipt, amounts) ==
    LET n == Len(amounts)
        above == Float(n * receipt.amount - Sum(amounts), n)
    IN [date |-> receipt.date, vendor |-> receipt.vendor_name,
        amount |-> receipt.amount, category |-> receipt.category,
        deviation |->
            IF ScaledVariance(amounts) > 0
            THEN [num |-> above,
                  den |-> [sqrt_of |-> Float(ScaledVariance(amounts), n * (n - 1))]]
            ELSE [num |-> Float(0, 1), den |-> [sqrt_of |-> Float(1, 1)]],
        percentage_above_average |->
            IF Sum(amounts) > 0
            THEN Float(above.num * 100, Sum(amounts))
            ELSE Float(0, 1)]

\* a mutant of detect_unusual_spending: the gate is two receipts, not three
detect_unusual_spending_from_two(db, docs, now, sensitivity, days_back, u) ==
    LET receipts == _fetch_receipts(db, docs, u,
                        RangeParams(PlusDays(now, 0 - days_back), now)).value
        amounts == Amounts(receipts)
        unusual == SelectSeq(receipts, LAMBDA r :
                       AboveThreshold(r.amount, amounts, sensitivity))
    IN IF Len(receipts) < 2 THEN <<>>
       ELSE SortedDesc([i \in 1..Len(unusual) |-> UnusualEntry(unusual[i], amounts)],
                       "amount")

detect_unusual_spending(db, docs, now, sensitivity, days_back, u) ==
    LET receipts == _fetch_receipts(db, docs, u,
                        RangeParams(PlusDays(now, 0 - days_back), now)).value
        amounts == Amounts(receipts)
        unusual == SelectSeq(receipts, LAMBDA r :
                       AboveThreshold(r.amount, amounts, sensitivity))
    IN IF Len(receipts) < 3 THEN <<>>
       ELSE SortedDesc([i \in 1..Len(unusual) |-> UnusualEntry(unusual[i], amounts)],
                       "amount")

\* the month names of strftime('%B')
MonthName(m) ==
    << "January", "February", "March", "April", "May", "June", "July",
       "August", "September", "October", "November", "December" >>[m]

\* d.strftime('%B %Y')
MonthLabel(d) == << MonthName(d[2]), d[1] >>

\* d.replace(day=1)
FirstOfMonth(d) == << d[1], d[2], 1 >>

\* iterations i, i + 1, ..., months - 1 of the loop of
\* get_monthly_spending_trend, entered with the local end_date: the entries
\* appended to monthly_totals, in the order appended
RECURSIVE MonthlyTotals(_, _, _, _, _, _)
MonthlyTotals(db, docs, u, end_date, i, months) ==
    IF i >= months THEN <<>>
    ELSE LET last_of_previous == PlusDays(FirstOfMonth(end_date), -1)
             month_start == FirstOfMonth(last_of_previous)
             month_end == IF i = 0 THEN end_date ELSE last_of_previous
             receipts == _fetch_receipts(db, docs, u,
                             RangeParams(month_start, month_end)).value
         IN << [month |-> MonthLabel(month_start), total |-> Sum(Amounts(receipts))] >>
                \o MonthlyTotals(db, docs, u, PlusDays(month_start, -1), i + 1, months)

\* list(reversed(xs))
Reversed(xs) == [i \in 1..Len(xs) |-> xs[Len(xs) + 1 - i]]

get_monthly_spending_trend(db, docs, now, months, u) ==
    Reversed(MonthlyTotals(db, docs, u, now, 0, months))

-----------------------------------------------------------------------------
(* Receipt parsing *)

\* the values of the enum ReceiptCategory
ReceiptCategory ==
    {"grocery", "restaurant", "shopping", "fuel", "pharmacy", "electronics",
     "utilities", "other"}

\* str.lower on the category strings below
LowerCategory(s) ==
    CASE s = "GROCERY" -> "grocery" [] s = "Toys" -> "toys" [] OTHER -> s

\* a date string that names no day of the calendar
Feb30 == <<2024, 2, 30>>

\* datetime.strptime accepts the date
IsDate(d) == d[2] \in 1..12 /\ d[3] \in 1..DaysInMonth(d[1], d[2])

\* data.get(key, default)
Get(data, key, default) == IF key \in DOMAIN data THEN data[key] ELSE default

\* the category strings a receipt mapping may carry
CategoryStrings == {"grocery", "GROCERY", "fuel", "other", "toys", "Toys"}

\* the mappings the OCR model returns for a receipt image
OcrData ==
    [vendor_name : {"X"}, category : CategoryStrings, date : {May1, Feb30},
     amount : {50}]
        \cup [vendor_name : {"X"}, date : {May1, Feb30}, amount : {50}]

\* the receipt documents Receipt.from_dict is applied to
StoredData ==
    [vendor_name : {"X", "Y"}, category : CategoryStrings, date_time : {May1, May31},
     amount : {50}]
        \cup [vendor_name : {"X", "Y"}, date_time : {May1, May31}, amount : {50}]

\* the responses of the OCR model: a text with a JSON mapping in it, a text
\* without one (_extract_json gives "{}"), or a failure of the model call
OcrResponses ==
    [kind : {"json"}, data : OcrData]
        \cup {[kind |-> "no_json", data |-> EmptyArgs],
              [kind |-> "failed", data |-> EmptyArgs]}

\* the dataclass Receipt
MakeReceipt(vendor_name, category, date_time, amount, raw_text) ==
    [vendor_name |-> vendor_name, category |-> category, date_time |-> date_time,
     amount |-> amount, raw_text |-> raw_text]

\* Receipt.from_dict: ReceiptCategory(category_str) raises ValueError for a
\* string that is no value of the enum
from_dict(data) ==
    LET category_str == LowerCategory(Get(data, "category", "other")) IN
    IF category_str \notin ReceiptCategory
    THEN [ok |-> FALSE,
          value |-> <<"ValueError: '", category_str, "' is not a valid ReceiptCategory">>]
    ELSE [ok |-> TRUE,
          value |-> MakeReceipt(Get(data, "vendor_name", "Unknown"), category_str,
                                Get(data, "date_time", Today),
                                Get(data, "amount", 0), <<>>)]

\* ReceiptOCRPipeline._parse_receipt_data: strptime raises ValueError for a
\* date that does not exist; an unknown category becomes ReceiptCategory.OTHER
_parse_receipt_data(data) ==
    LET date_str == Get(data, "date", Today)
        category_str == LowerCategory(Get(data, "category", "other"))
        category == IF category_str \in ReceiptCategory THEN category_str ELSE "other"
    IN IF ~IsDate(date_str)
       THEN [ok |-> FALSE, value |-> <<"ValueError: day is out of range for month">>]
       ELSE [ok |-> TRUE,
             value |-> MakeReceipt(Get(data, "vendor_name", "Unknown"), category,
                                   date_str, Get(data, "amount", 0), <<>>)]

\* ReceiptOCRPipeline.extract_receipt_data: the Receipt parsed from the
\* model's response, or the placeholder Receipt of the except branch
extract_receipt_data(ocr_response) ==
    LET parsed == _parse_receipt_data(ocr_response.data) IN
    IF ocr_response.kind = "failed"
    THEN MakeReceipt("Unknown Vendor", "other", Today, 0,
                     <<"Error: ", "model call failed">>)
    ELSE IF ~parsed.ok
    THEN MakeReceipt("Unknown Vendor", "other", Today, 0, <<"Error: ">> \o parsed.value)
    ELSE [parsed.value EXCEPT !.raw_text = <<"response.text">>]

-----------------------------------------------------------------------------
(* The analytics functions that read the date of single receipts *)

\* a field that holds None, and one that holds the value v
None == <<>>

Some(v) == << v >>

\* sub in s, for strings as sequences of characters
Contains(sub, s) ==
    \E i \in 0..(Len(s) - Len(sub)) : SubSeq(s, i + 1, i + Len(sub)) = sub

\* datetime.strptime(receipt['date'], '%Y-%m-%d'): KeyError without the key,
\* ValueError on a string that is no date of the calendar
ReadDate(receipt) ==
    IF "date" \notin DOMAIN receipt THEN [ok |-> FALSE, value |-> <<"KeyError: 'date'">>]
    ELSE IF ~IsDate(receipt.date) THEN [ok |-> FALSE, value |-> <<"ValueError">>]
    ELSE [ok |-> TRUE, value |-> receipt.date]

\* the receipts whose items match item_lower, one occurrence per matching item
PurchasesOf(receipts, item_lower) ==
    Flatten([i \in 1..Len(receipts) |->
        IF "items" \in DOMAIN receipts[i]
        THEN LET matching == SelectSeq(receipts[i].items, LAMBDA item :
                                 Contains(item_lower, Lower(Get(item, "name", <<>>))))
             IN [k \in 1..Len(matching) |-> receipts[i]]
        ELSE <<>>])

\* inventory_status[item_name] for the matching purchases of one item, all
\* with a readable date.  avg_interval * 1.2 is compared exactly, as 6/5 of
\* the mean; `if avg_interval` is false for None and for a mean of 0
InventoryEntry(purchases, now) ==
    LET days == SortedAsc([i \in 1..Len(purchases) |->
                              [date |-> purchases[i].date,
                               day |-> ToOrdinal(purchases[i].date)]], "day")
        last_purchase == days[Len(days)]
        days_since == ToOrdinal(now) - last_purchase.day
        intervals == [i \in 1..(Len(days) - 1) |-> days[i + 1].day - days[i].day]
        avg_interval == IF Len(days) > 1 THEN Some(Mean(intervals)) ELSE None
    IN IF purchases = <<>>
       THEN [last_purchased |-> None, days_since_purchase |-> None,
             purchase_count |-> 0, average_purchase_interval |-> None,
             needs_replenishment |-> None]
       ELSE [last_purchased |-> Some(last_purchase.date),
             days_since_purchase |-> Some(days_since),
             purchase_count |-> Len(days),
             average_purchase_interval |-> avg_interval,
             needs_replenishment |->
                IF avg_interval # None /\ avg_interval[1].num # 0
                THEN Some(days_since * 5 * avg_interval[1].den > 6 * avg_interval[1].num)
                ELSE Some(FALSE)]

\* check_inventory_status(item_names, user_id): the exception of the first
\* date that cannot be read, else the status of every requested name
check_inventory_status(db, docs, now, item_names, u) ==
    LET receipts == _fetch_receipts(db, docs, u,
                        RangeParams(PlusDays(now, -90), now)).value
        Purchases(item_name) == PurchasesOf(receipts, Strip(Lower(item_name)))
        read == Flatten([k \in 1..Len(item_names) |-> Purchases(item_names[k])])
        unread == SelectSeq(read, LAMBDA r : ~ReadDate(r).ok)
    IN IF unread # <<>>
       THEN [raised |-> TRUE, value |-> ReadDate(unread[1]).value]
       ELSE [raised |-> FALSE,
             value |-> [item_name \in {item_names[k] : k \in 1..Len(item_names)} |->
                           InventoryEntry(Purchases(item_name), now)]]

\* sorted(xs) for numbers
SortedNumbers(xs) ==
    LET rows == SortedAsc([i \in 1..Len(xs) |-> [v |-> xs[i]]], "v")
    IN [i \in 1..Len(rows) |-> rows[i].v]

\* statistics.quantiles(data, n=n), method 'exclusive', for len(data) >= 2:
\* the n - 1 cut points
Quantiles(data, n) ==
    LET sorted == SortedNumbers(data)
        ld == Len(sorted)
        m == ld + 1
        J(i) == LET j == (i * m) \div n
                IN IF j < 1 THEN 1 ELSE IF j > ld - 1 THEN ld - 1 ELSE j
        Delta(i) == i * m - J(i) * n
    IN [i \in 1..(n - 1) |->
            Float(sorted[J(i)] * (n - Delta(i)) + sorted[J(i) + 1] * Delta(i), n)]

\* xs[i] of a Python list: IndexError outside -len(xs) .. len(xs) - 1
ListIndex(xs, i) ==
    IF 0 <= i /\ i < Len(xs) THEN [ok |-> TRUE, value |-> xs[i + 1]]
    ELSE IF i < 0 /\ 0 - i <= Len(xs) THEN [ok |-> TRUE, value |-> xs[Len(xs) + i + 1]]
    ELSE [ok |-> FALSE, value |-> <<"IndexError: list index out of range">>]

\* a - b of two floats
Minus(a, b) == Float(a.num * b.den - b.num * a.den, a.den * b.den)

\* sorted(rows, key=lambda x: x[field], reverse=True) for a float field: stable
RECURSIVE SortedDescByFloat(_, _)
SortedDescByFloat(rows, field) ==
    IF rows = <<>> THEN <<>>
    ELSE LET h == Head(rows)
             rest == SortedDescByFloat(Tail(rows), field)
             Above(r) == r[field].num * h[field].den > h[field].num * r[field].den
         IN SelectSeq(rest, Above) \o <<h>> \o SelectSeq(rest, LAMBDA r : ~Above(r))

\* item_prices: per normalized item name, in insertion order, the prices
\* observed with the vendor of each
PriceRows(receipts) ==
    LET observed ==
            Flatten([i \in 1..Len(receipts) |->
                IF "items" \in DOMAIN receipts[i]
                THEN LET its == receipts[i].items IN
                     [k \in 1..Len(its) |->
                        [name |-> Strip(Lower(Get(its[k], "name", <<>>))),
                         price |-> Get(its[k], "price", 0),
                         vendor |-> Get(receipts[i], "vendor_name", "")]]
                ELSE <<>>])
        kept == SelectSeq(observed, LAMBDA o : o.name # <<>> /\ o.price # 0)
        names == Distinct([i \in 1..Len(kept) |-> kept[i].name])
    IN [i \in 1..Len(names) |->
            [item |-> names[i],
             price_data |-> SelectSeq(kept, LAMBDA o : o.name = names[i])]]

\* the prices of a price_data list
PricesOf(price_data) == [i \in 1..Len(price_data) |-> price_data[i].price]

\* the savings_opportunities entry of an item for a threshold price
Opportunity(row, threshold_price) ==
    LET prices == PricesOf(row.price_data)
        sorted == SortedNumbers(prices)
        high == SelectSeq(row.price_data, LAMBDA p :
                    p.price * threshold_price.den > threshold_price.num)
    IN [item |-> row.item,
        average_price |-> Mean(prices),
        lowest_price |-> sorted[1],
        highest_price |-> sorted[Len(sorted)],
        threshold_price |-> threshold_price,
        high_count |-> Len(high),
        potential_savings_per_purchase |->
            IF high = <<>> THEN Float(0, 1) ELSE Minus(Mean(PricesOf(high)), Mean(prices)),
        high_price_vendors |-> {high[i].vendor : i \in 1..Len(high)} \ {""}]

\* find_savings_opportunities(category, percentile_threshold, user_id)
find_savings_opportunities(db, docs, now, category, percentile_threshold, u) ==
    LET receipts == _fetch_receipts(db, docs, u,
                        [start_date |-> PlusDays(now, -60), end_date |-> now,
                         category |-> category]).value
        enough == SelectSeq(PriceRows(receipts), LAMBDA row : Len(row.price_data) >= 3)
        Threshold(row) ==
            ListIndex(Quantiles(PricesOf(row.price_data), 100), percentile_threshold - 1)
        failed == SelectSeq(enough, LAMBDA row : ~Threshold(row).ok)
        entries == [i \in 1..Len(enough) |-> Opportunity(enough[i], Threshold(enough[i]).value)]
        found == SelectSeq(entries, LAMBDA e : e.high_count > 0)
        savings_opportunities ==
            [i \in 1..Len(found) |->
                [k \in DOMAIN found[i] \ {"high_count"} |-> found[i][k]]]
    IN IF failed # <<>>
       THEN [raised |-> TRUE, value |-> Threshold(failed[1]).value]
       ELSE [raised |-> FALSE,
             value |-> [category |-> category,
                        total_opportunities |-> Len(savings_opportunities),
                        opportunities |->
                            SortedDescByFloat(savings_opportunities,
                                              "potential_savings_per_purchase")]]

\* the list `days` of get_spending_by_day_of_week
WeekDays ==
    << "Monday", "Tuesday", "Wednesday", "Thursday", "Friday", "Saturday", "Sunday" >>

\* days[date.weekday()]: Monday is weekday 0
DayName(d) == WeekDays[((ToOrdinal(d) + 6) % 7) + 1]

\* get_spending_by_day_of_week(start_date, end_date, user_id): a receipt
\* without the key 'date' is passed over, the first date strptime rejects
\* raises, else dict(day_spending)
get_spending_by_day_of_week(db, docs, start_date, end_date, u) ==
    LET receipts == _fetch_receipts(db, docs, u, RangeParams(start_date, end_date)).value
        dated == SelectSeq(receipts, LAMBDA r : "date" \in DOMAIN r)
        unread == SelectSeq(dated, LAMBDA r : ~ReadDate(r).ok)
        On(day_name) == SelectSeq(dated, LAMBDA r : DayName(r.date) = day_name)
    IN IF unread # <<>>
       THEN [raised |-> TRUE, value |-> ReadDate(unread[1]).value]
       ELSE [raised |-> FALSE,
             value |-> [day_name \in {DayName(dated[i].date) : i \in 1..Len(dated)} |->
                           Sum([i \in 1..Len(On(day_name)) |->
                                   Get(On(day_name)[i], "amount", 0)])]]

\* detect_recurring_subscriptions with the exceptions of its date reads: the
\* date of every receipt with a vendor is read before anything is reported
detect_recurring_subscriptions_raising(db, docs, now, u) ==
    LET receipts == _fetch_receipts(db, docs, u,
                        RangeParams(PlusDays(now, -90), now)).value
        named == SelectSeq(receipts, LAMBDA r : Get(r, "vendor_name", "") # "")
        unread == SelectSeq(named, LAMBDA r : ~ReadDate(r).ok)
    IN IF unread # <<>>
       THEN [raised |-> TRUE, value |-> ReadDate(unread[1]).value]
       ELSE [raised |-> FALSE, value |-> detect_recurring_subscriptions(db, docs, now, u)]

\* the items of the Receipt that extract_receipt_data returns: those of the
\* parsed mapping, none in the placeholder Receipt
ReceiptItemsOf(ocr_response) ==
    IF ocr_response.kind = "failed" \/ ~_parse_receipt_data(ocr_response.data).ok
    THEN <<>>
    ELSE Get(ocr_response.data, "items", <<>>)

\* receipt_data_to_store of AIPipeline.process_receipt: asdict(receipt)
\* without raw_text, the category as its value
receipt_data_to_store(ocr_response) ==
    LET receipt == extract_receipt_data(ocr_response) IN
    [vendor_name |-> receipt.vendor_name, category |-> receipt.category,
     date_time |-> receipt.date_time, amount |-> receipt.amount,
     items |-> ReceiptItemsOf(ocr_response)]

\* FirebaseClient.add_update_receipt_details without a receipt_id: a new
\* document of users/{u}/receipts.  written_by records the writer
add_update_receipt_details(docs, u, receipt_doc) ==
    Append(docs, [owner |-> u, data |-> receipt_doc, written_by |-> "process_receipt"])

\* AIPipeline.process_receipt: the store after the call
process_receipt(docs, ocr_response, u) ==
    add_update_receipt_details(docs, u, receipt_data_to_store(ocr_response))

-----------------------------------------------------------------------------
(* Calls on the receipt store *)

\* no call made yet
NoRequest == [op |-> "none"]

\* nothing returned yet
NotReturned == [pending |-> TRUE]

\* no receipt call is part of a behaviour of process_query
ReceiptsIdle ==
    /\ store = <<>>
    /\ request = NoRequest
    /\ returned = NotReturned

-----------------------------------------------------------------------------
(* process_query *)

\* a mutant of PartOutcome: no try/except around the tool call
PartOutcomeNoCatch(part, u) ==
    LET tool_name == part.function_call.name
        args == InjectUserId(part.function_call.args, u)
        res == CallTool(tool_name, args)
        call == [pass |-> "primary", tool |-> tool_name, args |-> args]
    IN
    IF ~IsCall(part.function_call)
    THEN [responses |-> <<>>, log |-> <<>>, calls |-> <<>>, raised |-> FALSE]
    ELSE IF tool_name \notin toolbox
    THEN [responses |-> << ResponsePart(tool_name,
                              [error |-> <<"Tool '", tool_name, "' not found.">>]) >>,
          log |-> <<>>, calls |-> <<>>, raised |-> FALSE]
    ELSE IF res.ok
    THEN [responses |-> << ResponsePart(tool_name, [content |-> JsonDumps(res.value)]) >>,
          log |-> << [tool |-> tool_name, args |-> LogArgs(args), result |-> res.value] >>,
          calls |-> << call >>, raised |-> FALSE]
    ELSE [responses |-> <<>>, log |-> <<>>, calls |-> << call >>, raised |-> TRUE]

\* the body of `for part in ...parts` for one part: the tool responses, log
\* entries and tool calls it adds, and whether an exception leaves the loop
PartOutcome(part, u) ==
    LET tool_name == part.function_call.name
        args == InjectUserId(part.function_call.args, u)
        res == CallTool(tool_name, args)
        call == [pass |-> "primary", tool |-> tool_name, args |-> args]
    IN
    IF ~IsCall(part.function_call)
    THEN [responses |-> <<>>, log |-> <<>>, calls |-> <<>>, raised |-> FALSE]
    ELSE IF tool_name \notin toolbox
    THEN [responses |-> << ResponsePart(tool_name,
                              [error |-> <<"Tool '", tool_name, "' not found.">>]) >>,
          log |-> <<>>, calls |-> <<>>, raised |-> FALSE]
    ELSE IF res.ok
    THEN [responses |-> << ResponsePart(tool_name, [content |-> JsonDumps(res.value)]) >>,
          log |-> << [tool |-> tool_name, args |-> LogArgs(args), result |-> res.value] >>,
          calls |-> << call >>, raised |-> FALSE]
    ELSE [responses |-> << ResponsePart(tool_name, [error |-> res.value]) >>,
          log |-> <<>>, calls |-> << call >>, raised |-> FALSE]

Init ==
    /\ pc = "AWAITING_MODEL"
    /\ user_id \in Users
    /\ history = << UserTurn(user_id, query) >>
    /\ execution_results = <<>>
    /\ turn = 0
    /\ response = Unbound
    /\ part_idx = 0
    /\ tool_responses = <<>>
    /\ final_response_text = <<>>
    /\ shopping_list_response = Unbound
    /\ result = NoResult
    /\ invoked = <<>>
    /\ model_calls = 0
    /\ tool_phases = 0
    /\ secondary_calls = 0
    /\ changed = FALSE
    /\ ReceiptsIdle

\* one iteration of the loop up to the inner for loop: the model call, the
\* break test and the append of the model's turn.  The primary model is a
\* scripted one: it repeats its previous response or switches to another, once.
GenerateContent ==
    /\ pc = "AWAITING_MODEL"
    /\ turn < MaxTurns
    /\ \E r \in Responses :
        /\ \/ model_calls = 0
           \/ r = response
           \/ ~changed
        /\ changed' = (changed \/ (model_calls > 0 /\ r # response))
        /\ response' = r
        /\ model_calls' = model_calls + 1
        /\ turn' = turn + 1
        /\ IF HasLeadingFunctionCall(r)
           THEN /\ history' = Append(history, r.candidates[1].content)
                /\ tool_responses' = <<>>
                /\ part_idx' = 1
                /\ pc' = "EXECUTING_TOOLS"
           ELSE /\ pc' = "FINAL"
                /\ UNCHANGED <<history, tool_responses, part_idx>>
    /\ UNCHANGED <<user_id, execution_results, final_response_text,
                   shopping_list_response, result, invoked, tool_phases,
                   secondary_calls>>
    /\ UNCHANGED receipt_vars

\* a mutant of ExecutePart: what a part adds is put in front (insert(0, ...))
ExecutePartInFront ==
    /\ pc = "EXECUTING_TOOLS"
    /\ part_idx <= Len(PartsOf(response))
    /\ LET out == PartOutcome(PartsOf(response)[part_idx], user_id) IN
        /\ tool_responses' = out.responses \o tool_responses
        /\ execution_results' = out.log \o execution_results
        /\ invoked' = out.calls \o invoked
        /\ pc' = IF out.raised THEN "raised" ELSE pc
    /\ part_idx' = part_idx + 1
    /\ UNCHANGED <<user_id, history, turn, response, final_response_text,
                   shopping_list_response, result, model_calls, tool_phases,
                   secondary_calls, changed>>
    /\ UNCHANGED receipt_vars

\* one iteration of `for part in response.candidates[0].content.parts`
ExecutePart ==
    /\ pc = "EXECUTING_TOOLS"
    /\ part_idx <= Len(PartsOf(response))
    /\ LET out == PartOutcome(PartsOf(response)[part_idx], user_id) IN
        /\ tool_responses' = tool_responses \o out.responses
        /\ execution_results' = execution_results \o out.log
        /\ invoked' = invoked \o out.calls
        /\ pc' = IF out.raised THEN "raised" ELSE pc
    /\ part_idx' = part_idx + 1
    /\ UNCHANGED <<user_id, history, turn, response, final_response_text,
                   shopping_list_response, result, model_calls, tool_phases,
                   secondary_calls, changed>>
    /\ UNCHANGED receipt_vars

\* the end of the inner for loop: the tool turn is appended to the history
AppendToolTurn ==
    /\ pc = "EXECUTING_TOOLS"
    /\ part_idx > Len(PartsOf(response))
    /\ history' = Append(history, [role |-> "tool", parts |-> tool_responses])
    /\ tool_phases' = tool_phases + 1
    /\ pc' = "AWAITING_MODEL"
    /\ UNCHANGED <<user_id, execution_results, turn, response, part_idx,
                   tool_responses, final_response_text, shopping_list_response,
                   result, invoked, model_calls, secondary_calls, changed>>
    /\ UNCHANGED receipt_vars

\* range(5) is exhausted: the loop ends without a break
LoopExhausted ==
    /\ pc = "AWAITING_MODEL"
    /\ turn = MaxTurns
    /\ pc' = "FINAL"
    /\ UNCHANGED <<user_id, history, execution_results, turn, response, part_idx,
                   tool_responses, final_response_text, shopping_list_response,
                   result, invoked, model_calls, tool_phases, secondary_calls,
                   changed>>
    /\ UNCHANGED receipt_vars

\* final_response_text = response.text if response.candidates else "No response from model."
FinalText ==
    /\ pc = "FINAL"
    /\ IF response.candidates = <<>>
       THEN /\ final_response_text' = NoResponseText
            /\ pc' = "SHOPPING_LIST_PASS"
       ELSE IF ResponseText(response).ok
       THEN /\ final_response_text' = ResponseText(response).value
            /\ pc' = "SHOPPING_LIST_PASS"
       ELSE /\ pc' = "raised"
            /\ UNCHANGED final_response_text
    /\ UNCHANGED <<user_id, history, execution_results, turn, response, part_idx,
                   tool_responses, shopping_list_response, result, invoked,
                   model_calls, tool_phases, secondary_calls, changed>>
    /\ UNCHANGED receipt_vars

\* the secondary pass: one call of the shopping-list model, the optional
\* execution of create_shopping_list_pass and the return of the WalletPass
ShoppingListPass ==
    /\ pc = "SHOPPING_LIST_PASS"
    /\ \E r \in ShoppingListResponses, wallet_ok \in BOOLEAN :
        LET function_call == PartsOf(r)[1].function_call
            called == /\ HasLeadingFunctionCall(r)
                      /\ function_call.name = "create_shopping_list_pass"
                      /\ function_call.name \in shopping_list_toolbox
            res == CreateShoppingListPass(function_call.args, wallet_ok)
        IN
        /\ shopping_list_response' = r
        /\ secondary_calls' = secondary_calls + 1
        /\ invoked' = IF called
                      THEN Append(invoked, [pass |-> "secondary",
                                            tool |-> function_call.name,
                                            args |-> function_call.args])
                      ELSE invoked
        /\ result' = IF called /\ res.ok
                     THEN ShoppingListAnswer(res.value, final_response_text)
                     ELSE PlainAnswer(query, final_response_text, execution_results)
    /\ pc' = "returned"
    /\ UNCHANGED <<user_id, history, execution_results, turn, response, part_idx,
                   tool_responses, final_response_text, model_calls, tool_phases,
                   changed>>
    /\ UNCHANGED receipt_vars

Next ==
    \/ GenerateContent
    \/ ExecutePart
    \/ AppendToolTurn
    \/ LoopExhausted
    \/ FinalText
    \/ ShoppingListPass

Spec == Init /\ [][Next]_vars

-----------------------------------------------------------------------------
(* The receipt pipeline: one behaviour is one call of an analytics function *)
(* or of a receipt parser, on a store drawn from Stores.                    *)

\* the states of the module's db_client at a call
DbStates == {"up", "none", "failing"}

\* the filter parameters of the _fetch_receipts calls
FetchParams ==
    { RangeParams(May1, May31),
      RangeParams(May31, May31),
      [start_date |-> May1, end_date |-> May31, category |-> "grocery"],
      [start_date |-> May1, end_date |-> May31, vendor_name |-> "X"],
      [start_date |-> May1, end_date |-> May31, category |-> "fuel",
       vendor_name |-> "X"],
      [start_date |-> May1, end_date |-> May31, category |-> "",
       amount_condition |-> [operator |-> "gt", value |-> 50]],
      [start_date |-> May1, end_date |-> May31,
       amount_condition |-> [operator |-> "lt", value |-> 100]],
      [start_date |-> May1, end_date |-> May31, vendor_name |-> "X",
       amount_condition |-> [operator |-> "eq", value |-> 100]],
      [start_date |-> May1, end_date |-> May31, category |-> "grocery",
       amount_condition |-> [operator |-> "ge", value |-> 100]] }

\* the date ranges of the other calls: a month, a single day, an end before the start
DateRanges ==
    { RangeParams(May1, May31), RangeParams(May31, May31), RangeParams(May31, May1) }

\* the limit arguments of get_top_vendors
Limits == -1..MaxLimit

\* the min_frequency arguments of get_frequently_purchased_items
Frequencies == 0..MaxFrequency

\* the sensitivity arguments of detect_unusual_spending
Sensitivities == {-1, 0, 1, 2}

\* the days_back arguments of detect_unusual_spending
DaysBack == {7, 90}

\* a value returned
Returns(v) == [raised |-> FALSE, value |-> v]

\* the assistant is not part of these behaviours
ChatIdle ==
    /\ pc = "idle"
    /\ user_id = ""
    /\ history = <<>>
    /\ execution_results = <<>>
    /\ turn = 0
    /\ response = Unbound
    /\ part_idx = 0
    /\ tool_responses = <<>>
    /\ final_response_text = <<>>
    /\ shopping_list_response = Unbound
    /\ result = NoResult
    /\ invoked = <<>>
    /\ model_calls = 0
    /\ tool_phases = 0
    /\ secondary_calls = 0
    /\ changed = FALSE

ReceiptInit ==
    /\ ChatIdle
    /\ store \in Stores
    /\ request = NoRequest
    /\ returned = NotReturned

FetchReceipts ==
    /\ request = NoRequest
    /\ \E u \in Users, params \in FetchParams, db \in DbStates :
        /\ request' = [op |-> "_fetch_receipts", db |-> db, user_id |-> u,
                       params |-> params]
        /\ returned' = _fetch_receipts(db, store, u, params)
    /\ UNCHANGED <<chat_vars, store>>

GetTopVendors ==
    /\ request = NoRequest
    /\ \E u \in Users, limit \in Limits, db \in DbStates :
        /\ request' = [op |-> "get_top_vendors", db |-> db, user_id |-> u,
                       limit |-> limit]
        /\ returned' = Returns(get_top_vendors(db, store, limit, May1, May31, u))
    /\ UNCHANGED <<chat_vars, store>>

GetAverageDailySpending ==
    /\ request = NoRequest
    /\ \E u \in Users, range \in DateRanges, db \in DbStates :
        /\ request' = [op |-> "get_average_daily_spending", db |-> db, user_id |-> u,
                       start_date |-> range.start_date, end_date |-> range.end_date]
        /\ returned' = Returns(get_average_daily_spending(
                           db, store, range.start_date, range.end_date, u))
    /\ UNCHANGED <<chat_vars, store>>

GetFrequentlyPurchasedItems ==
    /\ request = NoRequest
    /\ \E u \in Users, min_frequency \in Frequencies, db \in DbStates :
        /\ request' = [op |-> "get_frequently_purchased_items", db |-> db,
                       user_id |-> u, min_frequency |-> min_frequency]
        /\ returned' = Returns(get_frequently_purchased_items(
                           db, store, min_frequency, May1, May31, u))
    /\ UNCHANGED <<chat_vars, store>>

DetectRecurringSubscriptions ==
    /\ request = NoRequest
    /\ \E u \in Users, db \in DbStates :
        /\ request' = [op |-> "detect_recurring_subscriptions", db |-> db,
                       user_id |-> u]
        /\ returned' = Returns(detect_recurring_subscriptions(db, store, Today, u))
    /\ UNCHANGED <<chat_vars, store>>

DetectUnusualSpending ==
    /\ request = NoRequest
    /\ \E u \in Users, sensitivity \in Sensitivities, days_back \in DaysBack,
          db \in DbStates :
        /\ request' = [op |-> "detect_unusual_spending", db |-> db, user_id |-> u,
                       sensitivity |-> sensitivity, days_back |-> days_back]
        /\ returned' = Returns(detect_unusual_spending(
                           db, store, Today, sensitivity, days_back, u))
    /\ UNCHANGED <<chat_vars, store>>

FromDict ==
    /\ request = NoRequest
    /\ \E data \in StoredData :
        /\ request' = [op |-> "from_dict", data |-> data]
        /\ returned' = [raised |-> ~from_dict(data).ok, value |-> from_dict(data).value]
    /\ UNCHANGED <<chat_vars, store>>

ParseReceiptData ==
    /\ request = NoRequest
    /\ \E data \in OcrData :
        /\ request' = [op |-> "_parse_receipt_data", data |-> data]
        /\ returned' = [raised |-> ~_parse_receipt_data(data).ok,
                        value |-> _parse_receipt_data(data).value]
    /\ UNCHANGED <<chat_vars, store>>

ExtractReceiptData ==
    /\ request = NoRequest
    /\ \E ocr_response \in OcrResponses :
        /\ request' = [op |-> "extract_receipt_data", data |-> ocr_response.data,
                       kind |-> ocr_response.kind]
        /\ returned' = Returns(extract_receipt_data(ocr_response))
    /\ UNCHANGED <<chat_vars, store>>

\* the months arguments of get_monthly_spending_trend
Months == 0..MaxMonths

GetMonthlySpendingTrend ==
    /\ request = NoRequest
    /\ \E u \in Users, months \in Months, db \in DbStates :
        /\ request' = [op |-> "get_monthly_spending_trend", db |-> db,
                       user_id |-> u, months |-> months]
        /\ returned' = Returns(get_monthly_spending_trend(db, store, Today, months, u))
    /\ UNCHANGED <<chat_vars, store>>

\* an item name no receipt holds
Tea == <<"t", "e", "a">>

\* the item_names arguments of check_inventory_status
ItemNameLists == { <<>>, << Milk >>, << MilkSpaced >>, << Egg >>, << Tea >>, << Egg, Milk >> }

CheckInventoryStatus ==
    /\ request = NoRequest
    /\ \E u \in Users, item_names \in ItemNameLists, db \in DbStates :
        /\ request' = [op |-> "check_inventory_status", db |-> db, user_id |-> u,
                       item_names |-> item_names]
        /\ returned' = check_inventory_status(db, store, Today, item_names, u)
    /\ UNCHANGED <<chat_vars, store>>

\* the category arguments of find_savings_opportunities
SavingsCategories == {"grocery", ""}

\* the percentile_threshold arguments of find_savings_opportunities
Percentiles == {1, 99, 100}

FindSavingsOpportunities ==
    /\ request = NoRequest
    /\ \E u \in Users, category \in SavingsCategories,
          percentile_threshold \in Percentiles, db \in DbStates :
        /\ request' = [op |-> "find_savings_opportunities", db |-> db, user_id |-> u,
                       category |-> category,
                       percentile_threshold |-> percentile_threshold]
        /\ returned' = find_savings_opportunities(db, store, Today, category,
                                                  percentile_threshold, u)
    /\ UNCHANGED <<chat_vars, store>>

ReceiptNext ==
    \/ FetchReceipts
    \/ GetTopVendors
    \/ GetAverageDailySpending
    \/ GetFrequentlyPurchasedItems
    \/ DetectRecurringSubscriptions
    \/ DetectUnusualSpending
    \/ GetMonthlySpendingTrend
    \/ CheckInventoryStatus
    \/ FindSavingsOpportunities
    \/ FromDict
    \/ ParseReceiptData
    \/ ExtractReceiptData

ReceiptSpec == ReceiptInit /\ [][ReceiptNext]_vars

-----------------------------------------------------------------------------
(* Uploads: receipts are stored by process_receipt and the analytics that   *)
(* read single dates are called on the store.  One behaviour is a seed      *)
(* store, some uploads and one analytics call.                              *)

\* receipt documents of the seed store: two with a date, one without the
\* key, one whose date strptime rejects
SeedPool ==
    { ReceiptDoc("X", "grocery", 100, May1, << Item(Milk, 40) >>),
      ReceiptDoc("X", "grocery", 102, May31, << Item(MilkSpaced, 42), Item(Egg, 6) >>),
      [vendor_name |-> "Y", category |-> "fuel", amount |-> 30, items |-> <<>>],
      ReceiptDoc("Y", "fuel", 30, Feb30, <<>>) }

SeedDocuments == [owner : {"alice"}, data : SeedPool, written_by : {"seed"}]

SeedStores == UNION {[1..n -> SeedDocuments] : n \in 0..MaxSeeds}

\* the responses of the OCR model to the uploaded images
UploadResponses ==
    { [kind |-> "json",
       data |-> [vendor_name |-> "X", category |-> "grocery", date |-> May31,
                 amount |-> 50, items |-> << Item(Milk, 40) >>]],
      [kind |-> "json",
       data |-> [vendor_name |-> "X", category |-> "grocery", date |-> Feb30,
                 amount |-> 50, items |-> << Item(Milk, 40) >>]],
      [kind |-> "failed", data |-> EmptyArgs] }

\* the documents of the store that process_receipt wrote
Uploaded(docs) == SelectSeq(docs, LAMBDA doc : doc.written_by = "process_receipt")

UploadInit ==
    /\ ChatIdle
    /\ store \in SeedStores
    /\ request = NoRequest
    /\ returned = NotReturned

\* POST /upload-image
UploadImage ==
    /\ request = NoRequest
    /\ Len(Uploaded(store)) < MaxUploads
    /\ \E u \in Users, ocr_response \in UploadResponses :
        store' = process_receipt(store, ocr_response, u)
    /\ UNCHANGED <<chat_vars, request, returned>>

SpendingByDayOfWeek ==
    /\ request = NoRequest
    /\ \E u \in Users, db \in DbStates :
        /\ request' = [op |-> "get_spending_by_day_of_week", db |-> db, user_id |-> u,
                       start_date |-> May1, end_date |-> May31]
        /\ returned' = get_spending_by_day_of_week(db, store, May1, May31, u)
    /\ UNCHANGED <<chat_vars, store>>

RecurringSubscriptionsOfStored ==
    /\ request = NoRequest
    /\ \E u \in Users, db \in DbStates :
        /\ request' = [op |-> "detect_recurring_subscriptions", db |-> db,
                       user_id |-> u]
        /\ returned' = detect_recurring_subscriptions_raising(db, store, Today, u)
    /\ UNCHANGED <<chat_vars, store>>

InventoryStatusOfStored ==
    /\ request = NoRequest
    /\ \E u \in Users, item_names \in {<< Milk >>, << Tea >>}, db \in DbStates :
        /\ request' = [op |-> "check_inventory_status", db |-> db, user_id |-> u,
                       item_names |-> item_names]
        /\ returned' = check_inventory_status(db, store, Today, item_names, u)
    /\ UNCHANGED <<chat_vars, store>>

UploadNext ==
    \/ UploadImage
    \/ SpendingByDayOfWeek
    \/ RecurringSubscriptionsOfStored
    \/ InventoryStatusOfStored

UploadSpec == UploadInit /\ [][UploadNext]_vars

-----------------------------------------------------------------------------
(* Updates: two requests write the same receipt document through            *)
(* FirebaseClient.add_or_update_document, each step of a request being one  *)
(* operation on the document store.  store holds the successive contents    *)
(* of the document, the first one from before the requests and the last one *)
(* current; request holds the locals of the two requests.                   *)

Requests == {"r1", "r2"}

\* a document that does not exist: doc_snapshot.exists is False
Missing == [exists |-> FALSE]

\* the current content of the document
Current(versions) == versions[Len(versions)]

\* the receipt document before the requests, as process_receipt wrote it
StoredReceipt ==
    [vendor_name |-> "X", category |-> "grocery", date_time |-> May1, amount |-> 100,
     items |-> << Item(Milk, 40) >>]

\* the data arguments of add_or_update_document called with a document_id
Updates ==
    { [amount |-> 7], [wallet_link |-> "link"], [amount |-> 9, wallet_link |-> "link 2"] }

\* the bodies of POST /add-to-wallet
AddToWalletRequests ==
    [amount : {10, 20}, vendor : {"V"}, category : {"fuel"}, date : {May31}]

\* existing_data.update(data)
Merge(existing_data, data) ==
    [k \in DOMAIN existing_data \cup DOMAIN data |->
        IF k \in DOMAIN data THEN data[k] ELSE existing_data[k]]

\* receipt_dict of add_to_wallet for the document it read: the fields of the
\* document with amount, vendor_name, category and date_time of the request
receipt_dict(receipt_doc, body) ==
    [vendor_name |-> body.vendor, category |-> body.category,
     date_time |-> body.date, amount |-> body.amount,
     items |-> Get(receipt_doc, "items", <<>>)]

\* the locals of a request at its start
Direct(data) ==
    [kind |-> "add_or_update_document", at |-> "get", data |-> data,
     existing_data |-> Missing]

AddToWallet(body) ==
    [kind |-> "add_to_wallet", at |-> "read", body |-> body, data |-> EmptyArgs,
     existing_data |-> Missing]

UpdateInit ==
    /\ ChatIdle
    /\ store \in {<< Missing >>, << StoredReceipt >>}
    /\ request \in [Requests -> {Direct(data) : data \in Updates}
                                    \cup {AddToWallet(body) : body \in AddToWalletRequests}]
    /\ returned = [r \in Requests |-> NotReturned]

\* add_to_wallet up to the call of add_update_receipt_details: the read of
\* the document and the Receipt built from it; a missing document or an
\* unknown category raises and the request ends with status 500
ReadReceipt(r) ==
    /\ request[r].at = "read"
    /\ LET receipt_doc == Current(store) IN
        IF receipt_doc = Missing \/ ~from_dict(receipt_doc).ok
        THEN /\ request' = [request EXCEPT ![r].at = "raised"]
             /\ returned' = [returned EXCEPT ![r] = [raised |-> TRUE, value |-> 500]]
        ELSE /\ request' = [request EXCEPT ![r].at = "get",
                                           ![r].data = receipt_dict(receipt_doc,
                                                                    request[r].body)]
             /\ UNCHANGED returned
    /\ UNCHANGED <<chat_vars, store>>

\* doc_snapshot = doc_ref.get(); existing_data = doc_snapshot.to_dict()
GetSnapshot(r) ==
    /\ request[r].at = "get"
    /\ request' = [request EXCEPT ![r].at = "set", ![r].existing_data = Current(store)]
    /\ UNCHANGED <<chat_vars, store, returned>>

\* existing_data.update(data); doc_ref.set(existing_data), or doc_ref.set(data)
\* for a snapshot that did not exist; return doc_ref.id
SetDocument(r) ==
    /\ request[r].at = "set"
    /\ store' = Append(store,
                       IF request[r].existing_data # Missing
                       THEN Merge(request[r].existing_data, request[r].data)
                       ELSE request[r].data)
    /\ request' = [request EXCEPT ![r].at = "done"]
    /\ returned' = [returned EXCEPT ![r] = Returns("receipt_id")]
    /\ UNCHANGED chat_vars

UpdateNext ==
    \/ \E r \in Requests : ReadReceipt(r)
    \/ \E r \in Requests : GetSnapshot(r)
    \/ \E r \in Requests : SetDocument(r)

UpdateSpec == UpdateInit /\ [][UpdateNext]_vars

-----------------------------------------------------------------------------
(* Vocabulary of the properties *)

IsCallPart(part) == IsCall(part.function_call)

\* the response holds a function-call part at some position
HasAnyCall(r) ==
    /\ r.candidates # <<>>
    /\ \E i \in 1..Len(PartsOf(r)) : IsCallPart(PartsOf(r)[i])

\* the primary loop is over, by break or by exhaustion of range(5)
LoopOver == pc \in {"FINAL", "SHOPPING_LIST_PASS", "returned", "raised"}

\* the tool result the loop owes to one function-call part
OwedResult(part) ==
    LET n == part.function_call.name
        res == CallTool(n, InjectUserId(part.function_call.args, user_id))
    IN IF n \notin toolbox THEN [error |-> <<"Tool '", n, "' not found.">>]
       ELSE IF res.ok THEN [content |-> JsonDumps(res.value)]
       ELSE [error |-> res.value]

\* the tool results answer the function-call parts, one each and in order
AnswersCalls(parts, results) ==
    LET calls == SelectSeq(parts, IsCallPart) IN
    /\ Len(results) = Len(calls)
    /\ \A i \in 1..Len(calls) :
        /\ results[i].kind = "function_response"
        /\ results[i].name = calls[i].function_call.name
        /\ results[i].response = OwedResult(calls[i])

\* the first n parts of a part list
Prefix(parts, n) == SubSeq(parts, 1, n)

-----------------------------------------------------------------------------
(* Properties *)

(* C1: every tool function the primary loop calls is called with user_id    *)
(* equal to the caller's user_id, also when the model's arguments carried   *)
(* another user_id; every logged result was computed for the caller.        *)
UserIdAlwaysInjected ==
    /\ \A i \in 1..Len(invoked) :
        invoked[i].pass = "primary" =>
            /\ "user_id" \in DOMAIN invoked[i].args
            /\ invoked[i].args["user_id"] = user_id
    /\ \A i \in 1..Len(execution_results) :
        execution_results[i].result.data_of = user_id

\* a get_top_vendors call whose model arguments named another user was made
UserIdOverwritten ==
    /\ user_id # ModelUserId
    /\ \E j \in 1..Len(history) :
        /\ history[j].role = "model"
        /\ \E k \in 1..Len(history[j].parts) :
            /\ history[j].parts[k].function_call.name = "get_top_vendors"
            /\ history[j].parts[k].function_call.args["user_id"] = ModelUserId
    /\ \E i \in 1..Len(invoked) :
        /\ invoked[i].pass = "primary"
        /\ invoked[i].tool = "get_top_vendors"
    /\ \E i \in 1..Len(execution_results) :
        execution_results[i].tool = "get_top_vendors"

\* the content requests tool calls, all of them of registered tools
RequestsValidToolCall(content) ==
    /\ \E i \in 1..Len(content.parts) : IsCallPart(content.parts[i])
    /\ \A i \in 1..Len(content.parts) :
        IsCallPart(content.parts[i]) => content.parts[i].function_call.name \in toolbox

\* every response of the primary model so far requested a valid tool call
AlwaysRequestsValidToolCall ==
    /\ model_calls > 0
    /\ response.candidates # <<>>
    /\ RequestsValidToolCall(response.candidates[1].content)
    /\ \A j \in 1..Len(history) :
        history[j].role = "model" => RequestsValidToolCall(history[j])

(* C2: at most 5 primary model calls are made; with a model that requests   *)
(* a valid tool call on every turn the loop ends after exactly 5 model      *)
(* calls and 5 tool-execution phases.                                       *)
TurnCapExact ==
    /\ model_calls <= MaxTurns
    /\ (LoopOver /\ AlwaysRequestsValidToolCall) =>
            (model_calls = MaxTurns /\ tool_phases = MaxTurns)

(* C3: when the budget of 5 round-trips is exhausted process_query does not *)
(* raise, and the answer it returns is the last model text or the fallback  *)
(* string.                                                                  *)
ExhaustionReturnsAnswer ==
    (LoopOver /\ tool_phases = MaxTurns) =>
        /\ pc # "raised"
        /\ pc = "returned" => result.details.response \in {ModelText, NoResponseText}

\* the first response was final and holds no function-call part
FirstResponseWithoutCall ==
    /\ model_calls >= 1
    /\ Len(history) = 1
    /\ ~HasAnyCall(response)

(* C4: when the first response holds no function-call part, process_query   *)
(* returns after one primary round-trip, without a primary tool call, with  *)
(* an empty execution log and with that response's text as the answer.      *)
PlainFirstResponseIsFinal ==
    FirstResponseWithoutCall =>
        /\ pc # "raised"
        /\ model_calls = 1
        /\ execution_results = <<>>
        /\ \A i \in 1..Len(invoked) : invoked[i].pass # "primary"
        /\ pc = "returned" =>
            /\ result.details.response =
                   IF response.candidates = <<>> THEN NoResponseText ELSE ModelText
            /\ result.pass_type = "other" => result.details.execution_results = <<>>

\* the last response requests a tool that is not in the primary toolbox
RequestsUnknownTool ==
    /\ model_calls > 0
    /\ response.candidates # <<>>
    /\ \E i \in 1..Len(PartsOf(response)) :
        /\ IsCallPart(PartsOf(response)[i])
        /\ PartsOf(response)[i].function_call.name \notin toolbox

(* C5: a turn that requests a tool outside the primary toolbox is answered  *)
(* by a tool turn in the history: an error result for that call, the        *)
(* result of the executed call for every other call of the turn.            *)
UnknownToolAnswered ==
    (RequestsUnknownTool /\ pc # "EXECUTING_TOOLS") =>
        /\ Len(history) >= 3
        /\ history[Len(history) - 1] = response.candidates[1].content
        /\ history[Len(history)].role = "tool"
        /\ AnswersCalls(history[Len(history) - 1].parts, history[Len(history)].parts)

(* C6: an exception raised by a tool never leaves process_query: it becomes *)
(* the error result of that call, the other calls of the turn are executed  *)
(* and answered, and every model turn is followed by its tool turn, after   *)
(* which the loop is back at the model call.                                *)
ToolExceptionsContained ==
    /\ \A j \in 1..Len(history) :
        (history[j].role = "model" /\ (j < Len(history) \/ pc # "EXECUTING_TOOLS")) =>
            /\ j < Len(history)
            /\ history[j + 1].role = "tool"
            /\ AnswersCalls(history[j].parts, history[j + 1].parts)
    /\ pc = "EXECUTING_TOOLS" =>
            /\ history[Len(history)].role = "model"
            /\ AnswersCalls(Prefix(history[Len(history)].parts, part_idx - 1),
                            tool_responses)

\* a tool raised, the next call of the same turn was executed, and the loop
\* went on to another model call
ToolRaisedAndLoopWentOn ==
    \E j \in 1..Len(history) :
        /\ history[j].role = "tool"
        /\ Len(history[j].parts) >= 2
        /\ history[j].parts[1].response = [error |-> <<"TypeError: unexpected keyword argument">>]
        /\ DOMAIN history[j].parts[2].response = {"content"}
        /\ j < Len(history)
        /\ history[j + 1].role = "model"

(* C7: whenever a response of the primary model holds a function-call part, *)
(* at any position, the model turn is appended to the history and its calls *)
(* are executed; the loop breaks to FINAL only on a response without one.   *)
CallsAnywhereAreExecuted ==
    [][ (model_calls' # model_calls /\ HasAnyCall(response')) =>
            /\ pc' = "EXECUTING_TOOLS"
            /\ history' = Append(history, response'.candidates[1].content) ]_vars

\* the response has no text: no candidate, no part, or no text part
NoTextContent(r) ==
    \/ r.candidates = <<>>
    \/ \A i \in 1..Len(PartsOf(r)) : PartsOf(r)[i].kind # "text"

(* C8: when the last primary response has no candidates, no parts or no     *)
(* text, process_query does not raise and returns the placeholder answer.   *)
MalformedResponseGetsPlaceholder ==
    (LoopOver /\ NoTextContent(response)) =>
        /\ pc # "raised"
        /\ pc = "returned" => result.details.response = NoResponseText

\* the response calls create_shopping_list_pass
CallsShoppingListPass(r) ==
    /\ r.candidates # <<>>
    /\ \E i \in 1..Len(PartsOf(r)) :
        PartsOf(r)[i].function_call.name = "create_shopping_list_pass"

(* C9: once the primary loop is over exactly one secondary model call is    *)
(* made; a secondary response that calls create_shopping_list_pass leads to *)
(* its execution and a SHOPPING_LIST result, any other to the OTHER result; *)
(* no other tool is executed in the secondary pass.                         *)
SecondaryPassContract ==
    /\ secondary_calls <= 1
    /\ pc \in {"returned", "raised"} => secondary_calls = 1
    /\ \A i \in 1..Len(invoked) :
        invoked[i].pass = "secondary" => invoked[i].tool = "create_shopping_list_pass"
    /\ pc = "returned" =>
        IF CallsShoppingListPass(shopping_list_response)
        THEN /\ result.pass_type = "shopping_list"
             /\ \E i \in 1..Len(invoked) : invoked[i].pass = "secondary"
        ELSE result.pass_type = "other"

ConformsToSchema(n, model_args) ==
    LET sig == Signature(n) IN
    /\ sig.required \ {"user_id"} \subseteq DOMAIN model_args
    /\ DOMAIN model_args \subseteq sig.required \cup sig.optional \cup {"user_id"}

(* C11: every function of the primary toolbox accepts the injected user_id, *)
(* so no primary call whose model arguments fit the declared schema ends in *)
(* a TypeError raised by the function's parameter list.                     *)
SignaturesAcceptUserId ==
    \A i \in 1..Len(invoked) :
        (/\ invoked[i].pass = "primary"
         /\ ConformsToSchema(invoked[i].tool, LogArgs(invoked[i].args)))
            => CallTool(invoked[i].tool, invoked[i].args).ok

\* the receipts of user u in the store, in stream order
StoredOf(u) == StreamFrom(store, u, 1)

\* the date lies in [start_date, end_date]
Within(d, start_date, end_date) ==
    /\ ToOrdinal(start_date) <= ToOrdinal(d)
    /\ ToOrdinal(d) <= ToOrdinal(end_date)

\* the request is a call of an analytics function that reads the store
ReadsStore ==
    request.op \in {"_fetch_receipts", "get_top_vendors", "get_average_daily_spending",
                    "get_frequently_purchased_items", "detect_recurring_subscriptions",
                    "detect_unusual_spending"}

\* a _fetch_receipts call with a date range and no other filter, the store up
IsRangeFetch ==
    /\ request.op = "_fetch_receipts"
    /\ request.db = "up"
    /\ DOMAIN request.params = {"start_date", "end_date"}

(* C12: the receipts _fetch_receipts obtains for a date range and a user    *)
(* are exactly that user's stored receipts dated within the range: none     *)
(* dated outside it, none of another user.                                  *)
FetchIsUsersReceiptsInRange ==
    IsRangeFetch =>
        returned.value =
            SelectSeq(StoredOf(request.user_id), LAMBDA r :
                Within(r.date, request.params.start_date, request.params.end_date))

\* the receipt passes every filter the parameters supply
PassesFilters(r, params) ==
    /\ Truthy(params, "category") => r.category = params.category
    /\ Truthy(params, "vendor_name") => r.vendor_name = params.vendor_name
    /\ "amount_condition" \in DOMAIN params =>
        LET cond == params.amount_condition IN
        /\ cond.operator = "gt" => r.amount > cond.value
        /\ cond.operator = "lt" => r.amount < cond.value
        /\ cond.operator = "eq" => r.amount = cond.value

(* C13: with the store up, _fetch_receipts returns, in store order, exactly *)
(* the fetched receipts that pass every supplied filter; an amount          *)
(* condition with an operator other than gt, lt, eq filters nothing and     *)
(* raises nothing.                                                          *)
FetchAppliesEveryFilter ==
    (request.op = "_fetch_receipts" /\ request.db = "up") =>
        /\ ~returned.raised
        /\ returned.value =
            SelectSeq(get_receipts_by_timerange(store, request.user_id,
                          request.params.start_date, request.params.end_date),
                      LAMBDA r : PassesFilters(r, request.params))

\* a fetch with a vendor and an amount filter that kept some receipts and
\* dropped others
FetchFilteredSome ==
    /\ request.op = "_fetch_receipts"
    /\ request.db = "up"
    /\ {"vendor_name", "amount_condition"} \subseteq DOMAIN request.params
    /\ returned.value # <<>>
    /\ Len(returned.value) < Len(StoredOf(request.user_id))

\* what the requested function returns when the user has no receipts
NoDataResult ==
    CASE request.op = "_fetch_receipts" -> <<>>
      [] request.op = "get_top_vendors" ->
            get_top_vendors("up", <<>>, request.limit, May1, May31, request.user_id)
      [] request.op = "get_average_daily_spending" ->
            get_average_daily_spending("up", <<>>, request.start_date,
                                       request.end_date, request.user_id)
      [] request.op = "get_frequently_purchased_items" ->
            get_frequently_purchased_items("up", <<>>, request.min_frequency,
                                           May1, May31, request.user_id)
      [] request.op = "detect_recurring_subscriptions" ->
            detect_recurring_subscriptions("up", <<>>, Today, request.user_id)
      [] request.op = "detect_unusual_spending" ->
            detect_unusual_spending("up", <<>>, Today, request.sensitivity,
                                    request.days_back, request.user_id)

(* C14: when db_client is unavailable or its fetch raises, _fetch_receipts  *)
(* returns an empty list and does not raise, and every analytics function   *)
(* returns what it returns for a user without receipts.                     *)
StoreFailureIsNoData ==
    (ReadsStore /\ request.db # "up") =>
        /\ ~returned.raised
        /\ returned.value = NoDataResult

\* an analytics call for a user with stored receipts, made while the store's
\* fetch raises, returned the empty report
AnalyticsSawNoDataOnFailure ==
    /\ request.op = "get_top_vendors"
    /\ request.db = "failing"
    /\ request.limit >= 1
    /\ StoredOf(request.user_id) # <<>>
    /\ returned = Returns(<<>>)

\* the first day of the 90-day window detect_recurring_subscriptions asks for
WindowStart == PlusDays(Today, -90)

\* the set of vendor names of a receipt list
VendorsOf(receipts) == {receipts[i].vendor_name : i \in 1..Len(receipts)}

\* the report holds an entry of the vendor
Reports(report, vendor) == \E i \in 1..Len(report) : report[i].vendor = vendor

(* C15: detect_recurring_subscriptions reports a vendor if and only if the  *)
(* vendor has at least 2 transactions in the 90-day window whose amounts    *)
(* deviate by less than 10% of their mean and whose day gaps deviate by     *)
(* less than 20% of the mean gap, the mean gap lying in 25..35; charges of  *)
(* 100 and 102 made 30 days apart give one entry with interval 30, cost 101 *)
SubscriptionsAreTheRegularVendorsOfTheWindow ==
    (request.op = "detect_recurring_subscriptions" /\ request.db = "up") =>
        LET in_window == SelectSeq(StoredOf(request.user_id), LAMBDA r :
                             Within(r.date, WindowStart, Today))
        IN \A v \in VendorsOf(StoredOf(request.user_id)) :
            Reports(returned.value, v) <=>
                /\ Len(TransactionsOf(in_window, v)) >= 2
                /\ IsLikelySubscription(TransactionsOf(in_window, v))

\* the sum of the amounts of the vendor's receipts
TotalOf(receipts, vendor) ==
    Sum(Amounts(SelectSeq(receipts, LAMBDA r : r.vendor_name = vendor)))

\* the number of the vendor's receipts
CountOf(receipts, vendor) ==
    Cardinality({i \in 1..Len(receipts) : receipts[i].vendor_name = vendor})

(* C16: for a limit >= 0 get_top_vendors returns min(limit, number of       *)
(* vendors) entries: vendors with the largest totals, in non-increasing     *)
(* order of total_spent, each with the sum and the count of the vendor's    *)
(* receipts; vendors X (50) and Y (30) with limit 1 give X with 50.         *)
TopVendorsAreTheLargest ==
    (request.op = "get_top_vendors" /\ request.db = "up" /\ request.limit >= 0) =>
        LET receipts == StoredOf(request.user_id)
            vendors == VendorsOf(receipts)
            report == returned.value
        IN /\ Len(report) = IF request.limit < Cardinality(vendors)
                            THEN request.limit ELSE Cardinality(vendors)
           /\ \A i \in 1..Len(report) :
                /\ report[i].vendor \in vendors
                /\ report[i].total_spent = TotalOf(receipts, report[i].vendor)
                /\ report[i].transaction_count = CountOf(receipts, report[i].vendor)
                /\ \A j \in (i + 1)..Len(report) :
                    /\ report[i].vendor # report[j].vendor
                    /\ report[i].total_spent >= report[j].total_spent
                /\ \A v \in vendors :
                    ~Reports(report, v) => report[i].total_spent >= TotalOf(receipts, v)
           /\ (/\ request.limit = 1
               /\ vendors = {"X", "Y"}
               /\ TotalOf(receipts, "X") = 50
               /\ TotalOf(receipts, "Y") = 30)
                => /\ Len(report) = 1
                   /\ report[1].vendor = "X"
                   /\ report[1].total_spent = 50

\* vendors X with total 50 and Y with total 30, limit 1: the entry of X
TopVendorOfTwo ==
    /\ request.op = "get_top_vendors"
    /\ request.db = "up"
    /\ request.limit = 1
    /\ VendorsOf(StoredOf(request.user_id)) = {"X", "Y"}
    /\ TotalOf(StoredOf(request.user_id), "X") = 50
    /\ TotalOf(StoredOf(request.user_id), "Y") = 30
    /\ Len(returned.value) = 1
    /\ returned.value[1].vendor = "X"
    /\ returned.value[1].total_spent = 50

\* the days from start_date to end_date, both counted
DaysOfRange(start_date, end_date) ==
    Cardinality(ToOrdinal(start_date)..ToOrdinal(end_date))

(* C17: get_average_daily_spending returns the total of the fetched amounts *)
(* divided by the number of days from start to end, both counted: the sum   *)
(* itself when start = end, and 0.0 when the end lies before the start.     *)
AverageIsTotalPerDay ==
    (request.op = "get_average_daily_spending" /\ request.db = "up") =>
        LET total == Sum(Amounts(StoredOf(request.user_id)))
            days == DaysOfRange(request.start_date, request.end_date)
            average == returned.value
        IN /\ average.den > 0
           /\ days > 0 => average.num * days = total * average.den
           /\ request.start_date = request.end_date => average.num = total * average.den
           /\ days = 0 => average.num = 0

\* an average over a single day, the day of the user's receipts
AverageOfSingleDay ==
    /\ request.op = "get_average_daily_spending"
    /\ request.db = "up"
    /\ request.start_date = request.end_date
    /\ Len(StoredOf(request.user_id)) >= 2
    /\ \A i \in 1..Len(StoredOf(request.user_id)) :
        StoredOf(request.user_id)[i].date = request.start_date
    /\ returned.value = Float(Sum(Amounts(StoredOf(request.user_id))), 1)

\* the places <<receipt, item>> of the items of a receipt list
ItemPlaces(receipts) ==
    UNION {{<<i, j>> : j \in 1..Len(receipts[i].items)} : i \in 1..Len(receipts)}

\* the item name at a place, lowercased and trimmed
NormalizedName(receipts, place) ==
    Strip(Lower(receipts[place[1]].items[place[2]].name))

\* the number of items whose normalized name is the given one
Occurrences(receipts, name) ==
    Cardinality({place \in ItemPlaces(receipts) :
                    NormalizedName(receipts, place) = name})

(* C18: get_frequently_purchased_items returns exactly the normalized item  *)
(* names that occur at least min_frequency times, each once and with its    *)
(* count; spellings that differ in case or surrounding blanks are one item. *)
FrequentItemsMeetMinFrequency ==
    (request.op = "get_frequently_purchased_items" /\ request.db = "up") =>
        LET receipts == StoredOf(request.user_id)
            names == {NormalizedName(receipts, place) : place \in ItemPlaces(receipts)}
            report == returned.value
        IN /\ {report[i].item : i \in 1..Len(report)} =
                {n \in names : n # <<>> /\ Occurrences(receipts, n) >= request.min_frequency}
           /\ \A i \in 1..Len(report) :
                /\ report[i].purchase_count = Occurrences(receipts, report[i].item)
                /\ \A j \in (i + 1)..Len(report) : report[i].item # report[j].item
           /\ \A n \in names :
                /\ Occurrences(receipts, n) = request.min_frequency - 1
                    => \A i \in 1..Len(report) : report[i].item # n
                /\ (n # <<>> /\ Occurrences(receipts, n) = request.min_frequency)
                    => \E i \in 1..Len(report) : report[i].item = n

\* milk, spelled in two ways, occurs min_frequency times and is reported;
\* egg occurs min_frequency - 1 times and is not
MilkReportedEggNot ==
    /\ request.op = "get_frequently_purchased_items"
    /\ request.db = "up"
    /\ request.min_frequency = 2
    /\ \E p, q \in ItemPlaces(StoredOf(request.user_id)) :
        /\ StoredOf(request.user_id)[p[1]].items[p[2]].name = Milk
        /\ StoredOf(request.user_id)[q[1]].items[q[2]].name = MilkSpaced
    /\ Occurrences(StoredOf(request.user_id), Lower(Milk)) = 2
    /\ Occurrences(StoredOf(request.user_id), Lower(Egg)) = 1
    /\ Len(returned.value) = 1
    /\ returned.value[1].item = Lower(Milk)
    /\ returned.value[1].purchase_count = 2

(* C19: detect_unusual_spending returns an empty list when fewer than 3     *)
(* receipts are fetched, whatever sensitivity and days_back; with 3 or more *)
(* every reported amount exceeds mean + sensitivity x stdev of the fetched  *)
(* amounts and the report is in non-increasing order of amount.             *)
UnusualSpendingIsGatedAndSorted ==
    (request.op = "detect_unusual_spending" /\ request.db = "up") =>
        LET receipts == StoredOf(request.user_id)
            report == returned.value
        IN /\ Len(receipts) < 3 => report = <<>>
           /\ \A i \in 1..Len(report) :
                /\ AboveThreshold(report[i].amount, Amounts(receipts), request.sensitivity)
                /\ \E k \in 1..Len(receipts) :
                    /\ receipts[k].amount = report[i].amount
                    /\ receipts[k].vendor_name = report[i].vendor
                /\ \A j \in (i + 1)..Len(report) : report[i].amount >= report[j].amount

\* a report of several receipts, the largest amount first although it was
\* not stored first
UnusualReportReordered ==
    /\ request.op = "detect_unusual_spending"
    /\ request.db = "up"
    /\ request.sensitivity >= 0
    /\ Len(returned.value) >= 2
    /\ returned.value[1].amount > returned.value[2].amount
    /\ StoredOf(request.user_id)[1].amount < returned.value[1].amount

\* the mapping carries a category string that is no value of ReceiptCategory
HasUnknownCategory(data) ==
    /\ "category" \in DOMAIN data
    /\ LowerCategory(data.category) \notin ReceiptCategory

(* C20: on every receipt-parsing path (Receipt.from_dict, _parse_receipt_   *)
(* data, extract_receipt_data) a category string outside the enum makes the *)
(* parse fail; no path returns a Receipt with a defaulted category.         *)
UnknownCategoryFailsToParse ==
    (/\ request.op \in {"from_dict", "_parse_receipt_data", "extract_receipt_data"}
     /\ HasUnknownCategory(request.data))
        => \/ returned.raised
           \/ /\ request.op = "extract_receipt_data"
              /\ returned.value.vendor_name = "Unknown Vendor"
              /\ returned.value.raw_text # <<"response.text">>

\* the function-call parts of a part list that name a registered tool
FoundCalls(parts) ==
    SelectSeq(parts, LAMBDA p : IsCallPart(p) /\ p.function_call.name \in toolbox)

\* the parts of the j-th turn of the history the inner loop has gone through
PartsDone(j) ==
    IF j = Len(history) /\ pc = "EXECUTING_TOOLS"
    THEN Prefix(history[j].parts, part_idx - 1)
    ELSE history[j].parts

\* the found function-call parts the loop has gone through, turn after turn
\* and in each turn as the model listed them
ListedSoFar ==
    Flatten([j \in 1..Len(history) |->
                IF history[j].role = "model" THEN FoundCalls(PartsDone(j)) ELSE <<>>])

\* the tool function calls the primary loop has made, in the order made
PrimaryInvoked == SelectSeq(invoked, LAMBDA c : c.pass = "primary")

\* the log entries of the calls that returned a payload, in the order of
\* the calls
LogOfReturned(calls) ==
    LET outcome == [i \in 1..Len(calls) |-> CallTool(calls[i].tool, calls[i].args)]
    IN Flatten([i \in 1..Len(calls) |->
                   IF outcome[i].ok
                   THEN <<[tool |-> calls[i].tool,
                           args |-> LogArgs(calls[i].args),
                           result |-> outcome[i].value]>>
                   ELSE <<>>])

EveryFoundCallIsLogged ==
    /\ Len(execution_results) = Len(PrimaryInvoked)
    /\ \A i \in 1..Len(execution_results) :
        /\ i <= Len(PrimaryInvoked) =>
            /\ execution_results[i].tool = PrimaryInvoked[i].tool
            /\ execution_results[i].args = LogArgs(PrimaryInvoked[i].args)
            /\ execution_results[i].result =
                   CallTool(PrimaryInvoked[i].tool, PrimaryInvoked[i].args).value
        /\ "user_id" \notin DOMAIN execution_results[i].args

\* xs is an initial segment of ys
IsPrefixOf(xs, ys) ==
    /\ Len(xs) <= Len(ys)
    /\ SubSeq(ys, 1, Len(xs)) = xs

(* C23: the history starts as the user turn and only grows; the k-th        *)
(* primary model call is sent 1 + 2(k-1) turns; every round-trip whose      *)
(* response holds tool calls appends that model turn, and the tool turn     *)
(* that follows a model turn bundles the results of all its calls.          *)
HistoryGrowsByRoundTrips ==
    [][ /\ history'[1] = UserTurn(user_id, query)
        /\ IsPrefixOf(history, history')
        /\ Len(history') <= Len(history) + 1
        /\ model_calls' # model_calls =>
            /\ Len(history) = 1 + 2 * model_calls
            /\ HasAnyCall(response') =>
                    history' = Append(history, response'.candidates[1].content)
        /\ Len(history') > Len(history) =>
            IF history[Len(history)].role = "model"
            THEN /\ history'[Len(history')].role = "tool"
                 /\ AnswersCalls(history[Len(history)].parts,
                                 history'[Len(history')].parts)
            ELSE history'[Len(history')].role = "model" ]_vars

\* the month k months before the month of d, as <<year, month>>
MonthsBefore(d, k) ==
    LET n == d[1] * 12 + (d[2] - 1) - k IN << n \div 12, (n % 12) + 1 >>

(* C24: get_monthly_spending_trend(N) returns N entries, oldest first, for  *)
(* N consecutive calendar months that end with the current month: the last  *)
(* entry is the current month, each earlier one the month before the next.  *)
MonthlyTrendCoversConsecutiveMonths ==
    request.op = "get_monthly_spending_trend" =>
        LET trend == returned.value
            N == request.months
        IN /\ ~returned.raised
           /\ Len(trend) = N
           /\ \A i \in 1..Len(trend) :
                trend[i].month =
                    << MonthName(MonthsBefore(Today, N - i)[2]),
                       MonthsBefore(Today, N - i)[1] >>

(* C25: for a requested item with matching purchases, needs_replenishment   *)
(* is None when there is no average purchase interval (fewer than two       *)
(* purchases) and otherwise tells whether the days since the last purchase  *)
(* exceed 1.2 times the average interval.                                   *)
ReplenishmentFlagIsNullWithoutInterval ==
    (request.op = "check_inventory_status" /\ ~returned.raised) =>
        \A item_name \in DOMAIN returned.value :
            LET status == returned.value[item_name]
                interval == status.average_purchase_interval
            IN status.purchase_count > 0 =>
                IF interval = None
                THEN status.needs_replenishment = None
                ELSE status.needs_replenishment =
                        Some(status.days_since_purchase[1] * 5 * interval[1].den
                                > 6 * interval[1].num)

\* the price observations of an item among the receipts the call fetched
ObservationsOf(item) ==
    LET receipts == _fetch_receipts(request.db, store, request.user_id,
                        [start_date |-> PlusDays(Today, -60), end_date |-> Today,
                         category |-> request.category]).value
        rows == SelectSeq(PriceRows(receipts), LAMBDA row : row.item = item)
    IN IF rows = <<>> THEN <<>> ELSE PricesOf(rows[1].price_data)

(* C26: for every percentile_threshold in 1..100 find_savings_opportunities *)
(* returns normally; an item it reports has at least 3 price observations   *)
(* and carries the threshold price of that percentile.                      *)
SavingsReturnForEveryPercentile ==
    (request.op = "find_savings_opportunities"
        /\ request.percentile_threshold \in 1..100) =>
        /\ ~returned.raised
        /\ \A i \in 1..Len(returned.value.opportunities) :
            LET entry == returned.value.opportunities[i]
                prices == ObservationsOf(entry.item)
            IN /\ Len(prices) >= 3
               /\ entry.threshold_price =
                      Quantiles(prices, 100)[request.percentile_threshold]

\* round(x) of a float x >= 0: to the nearest whole number, a half to the even one
Round(x) ==
    LET q == x.num \div x.den
        r == x.num % x.den
    IN IF 2 * r < x.den THEN q
       ELSE IF 2 * r > x.den THEN q + 1
       ELSE IF q % 2 = 0 THEN q ELSE q + 1

(* C27: every subscription reported by detect_recurring_subscriptions has   *)
(* next_expected_charge equal to the last charge date plus the mean         *)
(* interval rounded to whole days, for fractional mean intervals too.       *)
NextChargeIsLastPlusRoundedInterval ==
    request.op = "detect_recurring_subscriptions" =>
        \A i \in 1..Len(returned.value) :
            returned.value[i].next_expected_charge =
                PlusDays(returned.value[i].last_charge,
                         Round(returned.value[i].average_interval_days))

\* the receipts the call fetched
Fetched ==
    _fetch_receipts(request.db, store, request.user_id, RangeParams(May1, May31)).value

\* the date strptime would accept
HasReadableDate(receipt) == "date" \in DOMAIN receipt /\ IsDate(receipt.date)

\* the total of the buckets of a day_spending mapping
BucketTotal(day_spending) ==
    Sum([i \in 1..7 |->
            IF WeekDays[i] \in DOMAIN day_spending THEN day_spending[WeekDays[i]] ELSE 0])

(* C28: get_spending_by_day_of_week does not raise; a receipt whose date is *)
(* missing or unparseable is skipped, every other fetched receipt's amount  *)
(* is in the bucket of the weekday of its date, and the buckets add up to   *)
(* the amounts of the receipts with a parseable date.                       *)
DayOfWeekSkipsUnreadableDates ==
    request.op = "get_spending_by_day_of_week" =>
        LET readable == SelectSeq(Fetched, HasReadableDate)
            On(day_name) == SelectSeq(readable, LAMBDA r : DayName(r.date) = day_name)
        IN /\ ~returned.raised
           /\ \A i \in 1..7 :
                IF On(WeekDays[i]) = <<>>
                THEN WeekDays[i] \notin DOMAIN returned.value
                ELSE returned.value[WeekDays[i]] = Sum(Amounts(On(WeekDays[i])))
           /\ BucketTotal(returned.value) = Sum(Amounts(readable))

\* the documents of the store the call's user owns
OwnedBy(u) == SelectSeq(store, LAMBDA doc : doc.owner = u)

\* the call read the store, and what it fetched beside the uploaded receipts
\* has a date strptime accepts
ReadsUploadBesideDatedSeeds ==
    /\ request.op \in {"get_spending_by_day_of_week", "detect_recurring_subscriptions",
                       "check_inventory_status"}
    /\ request.db = "up"
    /\ Uploaded(OwnedBy(request.user_id)) # <<>>
    /\ \A i \in 1..Len(store) :
        (store[i].owner = request.user_id /\ store[i].written_by = "seed")
            => HasReadableDate(store[i].data)

(* C30: a receipt document written by process_receipt carries the date      *)
(* field; get_spending_by_day_of_week adds the amount of every such         *)
(* document it fetches to a weekday bucket, and                             *)
(* detect_recurring_subscriptions and check_inventory_status read its date  *)
(* without raising.                                                         *)
UploadedReceiptsCarryDate ==
    ReadsUploadBesideDatedSeeds =>
        /\ \A i \in 1..Len(store) :
            store[i].written_by = "process_receipt" => "date" \in DOMAIN store[i].data
        /\ ~returned.raised
        /\ request.op = "get_spending_by_day_of_week" =>
                BucketTotal(returned.value) = Sum(Amounts(Fetched))

\* the document after request r ran alone on the document doc
AfterAlone(doc, r) ==
    IF request[r].kind = "add_to_wallet"
    THEN (IF doc = Missing \/ ~from_dict(doc).ok THEN doc
          ELSE Merge(doc, receipt_dict(doc, request[r].body)))
    ELSE (IF doc = Missing THEN request[r].data ELSE Merge(doc, request[r].data))

\* the document before the requests
Before == store[1]

====
